---- MODULE Spec2Model ----
(***************************************************************************)
(* Model of the TSS wallet and signing service of solana-mpc-tss-lib:      *)
(*   src/src/tss/wallet.ts   TSSWallet  (key aggregation)                  *)
(*   src/src/tss/signing.ts  TSSSigningService (step two, aggregation and  *)
(*                           broadcast), lines 1-275                       *)
(*   src/src/solana/tx.ts    createTransferTx                              *)
(* Byte buffers (Uint8Array) are sequences of integers 0..255 with their   *)
(* real lengths.  An optional number (number | undefined) is a record      *)
(* [defined, num].  The ledger connection is an external collaborator: each*)
(* of its calls is recorded in  ledger  and answers with any outcome.      *)
(***************************************************************************)
EXTENDS Integers, Sequences, FiniteSets, TLC

VARIABLES
    connection,   \* TSSSigningService.connection (signing.ts:18)
    ledger,       \* the calls issued to the ledger connection, in order
    keysCall,     \* an invocation of TSSWallet.aggregateKeys
    stepTwo,      \* the invocations of aggregateSignStepTwo, one per run
    agg,          \* an invocation of aggregateSignaturesAndBroadcast
    random,       \* the values nacl.randomBytes has handed out, in order
    keypair,      \* an invocation of TSSWallet.generateKeypair
    stepOne,      \* the invocations of aggregateSignStepOne, one per run
    signAll,      \* an invocation of MPCKeypair.signAllTransactions
    requestedNetwork, \* the network last asked for, by the constructor or switchNetwork
    network,      \* TSSWallet.network (wallet.ts:11)
    walletConnection, \* TSSWallet.connection (wallet.ts:10)
    airdrop,      \* the invocations of TSSWallet.requestAirdrop, in order
    query,        \* an invocation of TSSWallet.getBalance or getRecentBlockhash
    single,       \* an invocation of TSSSigningService.sendSingle
    cli,          \* an invocation of a TSSCli operation
    signer,       \* an invocation of createMPCSigner
    mpcKeypair,   \* an MPCKeypair and the sign calls made on it
    verify,       \* an invocation of TSSSigningService.verifyPartialSignature
    fetched,      \* per caller, the blockhash its getLatestBlockhash call was answered with
    signerFromKey \* an invocation of createMPCSignerFromSecretKey

signerVars == <<random, keypair, stepOne, signAll>>
walletVars == <<requestedNetwork, network, walletConnection, airdrop, query>>

mpcVars == <<signer, mpcKeypair, verify, signerFromKey>>

vars ==
    <<connection, ledger, keysCall, stepTwo, agg, signerVars, walletVars, single, cli, mpcVars,
      fetched>>

----------------------------------------------------------------------------
(* Program constants *)

PUBLIC_KEY_LENGTH == 32
NONCE_LENGTH == 32
SEED_LENGTH == 32
SECRET_KEY_LENGTH == 64
SIGNATURE_LENGTH == 64

(* Bounds of the model *)

MaxKeys == 3        \* longest key list handed to aggregateKeys
MaxPartials == 2    \* longest list of partial signatures handed to aggregation

----------------------------------------------------------------------------
(* JavaScript values *)

Num(n) == [defined |-> TRUE, num |-> n]
UndefinedNum == [defined |-> FALSE, num |-> 0]

\* threshold || fallback : undefined and 0 are falsy
OrElse(x, fallback) == IF x.defined /\ x.num # 0 THEN x ELSE Num(fallback)

\* n < x for a number n : false when x is undefined (NaN comparison)
LessThan(n, x) == x.defined /\ n < x.num

UndefinedMemo == "<undefined>"

\* if (memo) : undefined and the empty string are falsy
MemoTruthy(memo) == memo # UndefinedMemo /\ memo # ""

Fill(n, b) == [i \in 1..n |-> b]

\* buf.slice(0, n)
Slice(buf, n) == [i \in 1..(IF n < Len(buf) THEN n ELSE Len(buf)) |-> buf[i]]

RECURSIVE Xor(_, _)
Xor(a, b) ==
    IF a = 0 THEN b
    ELSE IF b = 0 THEN a
    ELSE ((a + b) % 2) + 2 * Xor(a \div 2, b \div 2)

\* acc[i] ^= buf[i] for i < n : an index past the end of buf reads undefined,
\* which ^ takes as 0
XorInto(acc, buf, n) ==
    [i \in 1..n |-> IF i <= Len(buf) THEN Xor(acc[i], buf[i]) ELSE acc[i]]

RECURSIVE XorAll(_, _, _)
XorAll(acc, bufs, n) ==
    IF bufs = <<>> THEN acc
    ELSE XorAll(XorInto(acc, Head(bufs), n), Tail(bufs), n)

RECURSIVE SeqsUpTo(_, _)
SeqsUpTo(S, n) ==
    IF n = 0 THEN {<<>>}
    ELSE LET shorter == SeqsUpTo(S, n - 1)
         IN shorter \cup {Append(s, x) : s \in {t \in shorter : Len(t) = n - 1}, x \in S}

Range(s) == {s[i] : i \in 1..Len(s)}

----------------------------------------------------------------------------
(* Results of an operation: a value or a thrown error *)

Ok(v) == [ok |-> TRUE, value |-> v, error |-> "", have |-> 0, need |-> 0]
Err(msg) == [ok |-> FALSE, value |-> <<>>, error |-> msg, have |-> 0, need |-> 0]

\* `Insufficient signatures: ${have}/${need}`
InsufficientSignatures(h, n) ==
    [ok |-> FALSE, value |-> <<>>, error |-> "Insufficient signatures", have |-> h, need |-> n]

EmptyKeyList == "Cannot aggregate empty key list"

----------------------------------------------------------------------------
(* tweetnacl, abstracted: the key and the signature are fixed injective     *)
(* byte maps of their arguments, of the real lengths.                       *)

\* nacl.sign.keyPair.fromSeed(seed).publicKey
PublicKeyFromSeed(seed) == [i \in 1..PUBLIC_KEY_LENGTH |-> (seed[i] * 5 + 17) % 256]

SeedA == Fill(SEED_LENGTH, 1)
SeedB == Fill(SEED_LENGTH, 2)
SeedC == Fill(SEED_LENGTH, 3)

KeyA == PublicKeyFromSeed(SeedA)
KeyB == PublicKeyFromSeed(SeedB)
KeyC == PublicKeyFromSeed(SeedC)

PublicKeys == {KeyA, KeyB, KeyC}

----------------------------------------------------------------------------
(* TSSWallet.aggregateKeys *)

combinePublicKeys_noEmptyCheck(keys) ==
    IF Len(keys) = 1 THEN Ok(keys[1])
    ELSE Ok(XorAll(Fill(PUBLIC_KEY_LENGTH, 0), keys, PUBLIC_KEY_LENGTH))

combinePublicKeys_skipFirst(keys) ==
    IF Len(keys) = 0 THEN Err(EmptyKeyList)
    ELSE IF Len(keys) = 1 THEN Ok(keys[1])
    ELSE Ok(XorAll(Fill(PUBLIC_KEY_LENGTH, 0), Tail(keys), PUBLIC_KEY_LENGTH))

combinePublicKeys(keys) ==
    IF Len(keys) = 0 THEN Err(EmptyKeyList)
    ELSE IF Len(keys) = 1 THEN Ok(keys[1])
    ELSE Ok(XorAll(Fill(PUBLIC_KEY_LENGTH, 0), keys, PUBLIC_KEY_LENGTH))

Wallet(key, keys, thr) ==
    [aggregatedPublicKey |-> key, participantKeys |-> keys, threshold |-> thr]

aggregateKeys_alwaysNofN(participantKeys, threshold) ==
    LET combinedKey == combinePublicKeys(participantKeys)
    IN IF ~combinedKey.ok THEN combinedKey
       ELSE Ok(Wallet(combinedKey.value, participantKeys, Num(Len(participantKeys))))

aggregateKeys(participantKeys, threshold) ==
    LET combinedKey == combinePublicKeys(participantKeys)
    IN IF ~combinedKey.ok THEN combinedKey
       ELSE Ok(Wallet(combinedKey.value, participantKeys,
                      OrElse(threshold, Len(participantKeys))))

KeyLists == SeqsUpTo(PublicKeys, MaxKeys)
ThresholdArgs == {UndefinedNum} \cup {Num(n) : n \in (-1)..(MaxKeys + 1)}

IdleKeysCall == [pc |-> "idle", keys |-> <<>>, threshold |-> UndefinedNum, result |-> Err("")]

AggregateKeys(keys, threshold) ==
    /\ keysCall.pc = "idle"
    /\ keysCall' = [pc |-> "done", keys |-> keys, threshold |-> threshold,
                    result |-> aggregateKeys(keys, threshold)]
    /\ UNCHANGED <<connection, ledger, stepTwo, agg, signerVars, walletVars, single, mpcVars, fetched>>

----------------------------------------------------------------------------
(* Transactions (@solana/web3.js Transaction, as far as the code uses it) *)

Blockhashes == <<"bh-1", "bh-2", "bh-ledger-1", "bh-ledger-2">>
Memos == <<UndefinedMemo, "", "memo-1", "memo-2">>

IndexOf(s, x) == CHOOSE i \in 1..Len(s) : s[i] = x

TransferInstruction(from, to, lamports) ==
    [programId |-> "System", fromPubkey |-> from, toPubkey |-> to,
     lamports |-> lamports, data |-> ""]

MemoInstruction(memo) ==
    [programId |-> "MemoSq4gqABAXKb96qnH8TysNcWxMyWCqXgDLGmfcHr", fromPubkey |-> <<>>,
     toPubkey |-> <<>>, lamports |-> 0, data |-> memo]

\* createTransferTx once connection.getLatestBlockhash() has answered  blockhash
createTransferTx(blockhash, from, to, lamports) ==
    [recentBlockhash |-> blockhash, feePayer |-> from,
     instructions |-> <<TransferInstruction(from, to, lamports)>>,
     signatures |-> <<>>]

\* createTransactionFromDetails once the blockhash fetch has answered  blockhash
createTransactionFromDetails_keepFetched(details, blockhash) ==
    LET tx == createTransferTx(blockhash, details.from, details.to, details.amount)
    IN IF MemoTruthy(details.memo)
       THEN [tx EXCEPT !.instructions = Append(@, MemoInstruction(details.memo))]
       ELSE tx

createTransactionFromDetails(details, blockhash) ==
    LET tx == createTransferTx(blockhash, details.from, details.to, details.amount)
        withHash == [tx EXCEPT !.recentBlockhash = details.recentBlockhash]
    IN IF MemoTruthy(details.memo)
       THEN [withHash EXCEPT !.instructions = Append(@, MemoInstruction(details.memo))]
       ELSE withHash

\* tx.serializeMessage(): the bytes that get signed are determined by the fee
\* payer, the recent blockhash and the instructions
serializeMessage(tx) ==
    [feePayer |-> tx.feePayer, recentBlockhash |-> tx.recentBlockhash,
     instructions |-> tx.instructions]

\* The signers a compiled transaction expects: the fee payer and the sender of
\* each transfer; a memo instruction has no keys
RequiredSigners(tx) ==
    {tx.feePayer} \cup
    {tx.instructions[i].fromPubkey :
        i \in {j \in 1..Len(tx.instructions) : tx.instructions[j].programId = "System"}}

\* tx.addSignature(pubkey, signature): web3.js throws `unknown signer` unless
\* pubkey is one of the transaction's signers, and asserts a 64-byte signature
addSignature(tx, pubkey, signature) ==
    IF Len(signature) # SIGNATURE_LENGTH THEN Err("assertion failed")
    ELSE IF pubkey \notin RequiredSigners(tx) THEN Err("unknown signer")
    ELSE Ok([tx EXCEPT !.signatures =
                Append(@, [publicKey |-> pubkey, signature |-> signature])])

----------------------------------------------------------------------------
(* tweetnacl signing and hashing, abstracted *)

\* a short digest of the message bytes, injective on the messages of the model
MessageDigest(msg) ==
    LET transfer == msg.instructions[1]
        memo == IF Len(msg.instructions) > 1 THEN msg.instructions[2].data ELSE UndefinedMemo
    IN <<msg.feePayer[1], IndexOf(Blockhashes, msg.recentBlockhash),
         transfer.fromPubkey[1], transfer.toPubkey[1],
         (transfer.lamports \div 1000000) % 256, IndexOf(Memos, memo)>>

\* nacl.sign.keyPair.fromSeed(seed).secretKey : seed followed by the public key
SecretKeyFromSeed(seed) == seed \o PublicKeyFromSeed(seed)

\* nacl.sign.detached(message, secretKey): deterministic in the message and the
\* seed half of the secret key, 64 bytes
signDetached(message, secretKey) ==
    LET digest == MessageDigest(message)
        n == Len(digest)
    IN [i \in 1..SIGNATURE_LENGTH |->
          IF i <= 32
          THEN (secretKey[i] * 7 + digest[((i - 1) % n) + 1]) % 256
          ELSE (secretKey[i - 32] * 11 + 3 * digest[((i - 1) % n) + 1] + i) % 256]

\* nacl.hash(x).slice(0, 32)
Hash32(x) == [i \in 1..NONCE_LENGTH |-> (x[((i - 1) % Len(x)) + 1] * 13 + 101 + i) % 256]

----------------------------------------------------------------------------
(* TSSSigningService: helpers of the signing rounds *)

\* derivePublicKey: fromSeed for a 32-byte seed, then fromSecretKey, which
\* throws unless the key has 64 bytes and returns its second half
derivePublicKey(secretKey) ==
    LET fullSecretKey == IF Len(secretKey) = SEED_LENGTH
                         THEN SecretKeyFromSeed(secretKey) ELSE secretKey
    IN IF Len(fullSecretKey) # SECRET_KEY_LENGTH THEN Err("bad secret key size")
       ELSE Ok([i \in 1..PUBLIC_KEY_LENGTH |-> fullSecretKey[SEED_LENGTH + i]])

aggregateNonces(nonces) == XorAll(Fill(NONCE_LENGTH, 0), nonces, NONCE_LENGTH)

\* seedKey: the first half of a 64-byte key, a 32-byte key as it is, any other
\* key cut or zero-padded to 32 bytes
SeedKeyOf(secretKey) ==
    IF Len(secretKey) = SECRET_KEY_LENGTH THEN Slice(secretKey, SEED_LENGTH)
    ELSE IF Len(secretKey) # SEED_LENGTH
    THEN [i \in 1..SEED_LENGTH |-> IF i <= Len(secretKey) THEN secretKey[i] ELSE 0]
    ELSE secretKey

createPartialSignature(message, secretKey, secretNonce, aggregatedNonce) ==
    signDetached(message, SecretKeyFromSeed(SeedKeyOf(secretKey)))

aggregatePartialSignatures_firstThreshold(partialSignatures, aggregateWallet) ==
    LET n == IF LessThan(Len(partialSignatures), aggregateWallet.threshold)
                \/ ~aggregateWallet.threshold.defined
             THEN Len(partialSignatures)
             ELSE aggregateWallet.threshold.num
    IN [signature |-> XorAll(Fill(SIGNATURE_LENGTH, 0),
                             [i \in 1..n |-> partialSignatures[i].partialSignature],
                             SIGNATURE_LENGTH),
        publicKey |-> aggregateWallet.aggregatedPublicKey,
        transaction |-> <<>>]

aggregatePartialSignatures(partialSignatures, aggregateWallet) ==
    [signature |-> XorAll(Fill(SIGNATURE_LENGTH, 0),
                          [i \in 1..Len(partialSignatures) |->
                              partialSignatures[i].partialSignature],
                          SIGNATURE_LENGTH),
     publicKey |-> aggregateWallet.aggregatedPublicKey,
     transaction |-> <<>>]

StepOneData_nonceFromKey(participantSecretKey, secretNonce) ==
    [secretNonce |-> secretNonce,
     publicNonce |-> Hash32(participantSecretKey \o secretNonce),
     participantKey |-> derivePublicKey(participantSecretKey).value]

\* the value aggregateSignStepOne returns for a secret key and the 32 random
\* bytes drawn as secretNonce
StepOneData(participantSecretKey, secretNonce) ==
    [secretNonce |-> secretNonce, publicNonce |-> Hash32(secretNonce),
     participantKey |-> derivePublicKey(participantSecretKey).value]

StepTwoData_leaksNonce(stepOneData, participantSecretKey, details, allPublicNonces, blockhash) ==
    [partialSignature |->
         createPartialSignature(serializeMessage(createTransactionFromDetails(details, blockhash)),
                                participantSecretKey, stepOneData.secretNonce,
                                aggregateNonces(allPublicNonces)),
     publicNonce |-> stepOneData.publicNonce,
     participantKey |-> stepOneData.participantKey,
     secretNonce |-> stepOneData.secretNonce]

\* the value aggregateSignStepTwo returns once its blockhash fetch has answered
StepTwoData(stepOneData, participantSecretKey, details, allPublicNonces, blockhash) ==
    LET tx == createTransactionFromDetails(details, blockhash)
        messageToSign == serializeMessage(tx)
        aggregatedNonce == aggregateNonces(allPublicNonces)
        partialSignature == createPartialSignature(messageToSign, participantSecretKey,
                                                   stepOneData.secretNonce, aggregatedNonce)
    IN [partialSignature |-> partialSignature,
        publicNonce |-> stepOneData.publicNonce,
        participantKey |-> stepOneData.participantKey]

----------------------------------------------------------------------------
(* Inputs of the signing rounds *)

Networks == {"devnet", "testnet", "mainnet-beta"}

\* the group key of the participants A and B
KeyAB == combinePublicKeys(<<KeyA, KeyB>>).value

Details(from, memo, blockhash) ==
    [amount |-> 1000000, to |-> KeyC, from |-> from, network |-> "devnet",
     memo |-> memo, recentBlockhash |-> blockhash]

Ctx1 == Details(KeyAB, "memo-1", "bh-1")
Ctx2 == Details(KeyAB, "memo-1", "bh-2")     \* another blockhash
Ctx3 == Details(KeyAB, "memo-2", "bh-1")     \* another memo
CtxA == Details(KeyA, UndefinedMemo, "bh-1") \* sent from participant A's own key

Contexts == {Ctx1, Ctx2, Ctx3, CtxA}

SecretNonce1 == Fill(NONCE_LENGTH, 10)
SecretNonce2 == Fill(NONCE_LENGTH, 20)
SecretNonces == {SecretNonce1, SecretNonce2}

PublicNonce1 == Hash32(SecretNonce1)
PublicNonce2 == Hash32(SecretNonce2)

\* lists of public nonces: the session's two nonces, one nonce alone, a list
\* with a 31-byte entry, a list with an empty entry
NonceLists ==
    {<<PublicNonce1, PublicNonce2>>, <<PublicNonce1>>,
     <<PublicNonce1, Slice(PublicNonce2, NONCE_LENGTH - 1)>>, <<PublicNonce1, <<>>>>}

SecretKeys == {SeedA, SeedB}

LedgerBlockhashes == {"bh-ledger-1", "bh-ledger-2"}
TxIds == {"txid-1"}

LedgerCall(op, caller, tx) ==
    [op |-> op, connection |-> connection, caller |-> caller, tx |-> tx]

----------------------------------------------------------------------------
(* TSSSigningService.aggregateSignStepTwo: two independent runs *)

Runs == {1, 2}

\* the calls that fetch the latest blockhash to build a transaction from details
BlockhashCallers == {<<"stepTwo", r>> : r \in Runs} \cup {<<"aggregate">>}

IdleStepTwo ==
    [pc |-> "idle", stepOneData |-> <<>>, participantSecretKey |-> <<>>,
     transactionDetails |-> <<>>, allPublicNonces |-> <<>>, messageToSign |-> <<>>,
     result |-> Err("")]

\* the call up to its first await: createTransactionFromDetails asks the
\* connection for the latest blockhash
AggregateSignStepTwo(r, stepOneData, participantSecretKey, details, allPublicNonces) ==
    /\ stepTwo[r].pc = "idle"
    /\ stepTwo' = [stepTwo EXCEPT ![r] =
          [pc |-> "awaitBlockhash",
           stepOneData |-> stepOneData,
           participantSecretKey |-> participantSecretKey,
           transactionDetails |-> details,
           allPublicNonces |-> allPublicNonces,
           messageToSign |-> <<>>,
           result |-> Err("")]]
    /\ ledger' = Append(ledger, LedgerCall("getLatestBlockhash", <<"stepTwo", r>>, <<>>))
    /\ UNCHANGED <<connection, keysCall, agg, signerVars, walletVars, single, mpcVars, fetched>>

\* step two called with the step-one output of  secretKey  and  secretNonce
StepTwoCall(r, secretKey, secretNonce, details, allPublicNonces) ==
    AggregateSignStepTwo(r, StepOneData(secretKey, secretNonce), secretKey, details,
                         allPublicNonces)

\* the blockhash fetch fails: the call rejects
StepTwoBlockhashFailed(r) ==
    /\ stepTwo[r].pc = "awaitBlockhash"
    /\ stepTwo' = [stepTwo EXCEPT ![r].pc = "done",
                                  ![r].result = Err("getLatestBlockhash failed")]
    /\ UNCHANGED <<connection, ledger, keysCall, agg, signerVars, walletVars, single, cli, mpcVars, fetched>>

\* the blockhash fetch answers: the rest of the call runs to its return
StepTwoBlockhashFetched(r, blockhash) ==
    /\ stepTwo[r].pc = "awaitBlockhash"
    /\ stepTwo' = [stepTwo EXCEPT
          ![r].pc = "done",
          ![r].messageToSign =
              <<serializeMessage(createTransactionFromDetails(stepTwo[r].transactionDetails,
                                                              blockhash))>>,
          ![r].result = Ok(StepTwoData(stepTwo[r].stepOneData,
                                       stepTwo[r].participantSecretKey,
                                       stepTwo[r].transactionDetails,
                                       stepTwo[r].allPublicNonces, blockhash))]
    /\ UNCHANGED <<connection, ledger, keysCall, agg, signerVars, walletVars, single, cli, mpcVars>>

NextStepTwo ==
    \/ \E r \in Runs, secretKey \in SecretKeys, secretNonce \in SecretNonces,
          details \in {Ctx1, Ctx2}, allPublicNonces \in NonceLists :
            StepTwoCall(r, secretKey, secretNonce, details, allPublicNonces) /\ UNCHANGED cli
    \/ \E r \in Runs : StepTwoBlockhashFailed(r)
    \/ \E r \in Runs, blockhash \in LedgerBlockhashes :
          StepTwoBlockhashFetched(r, blockhash) /\ UNCHANGED fetched

----------------------------------------------------------------------------
(* TSSSigningService.aggregateSignaturesAndBroadcast *)

\* the partial signature participant  secretKey  returns from step two over
\*  details  in the session with the nonces 1 and 2
PartialOf(secretKey, secretNonce, details) ==
    StepTwoData(StepOneData(secretKey, secretNonce), secretKey, details,
                <<PublicNonce1, PublicNonce2>>, "bh-ledger-1")

PartialA1 == PartialOf(SeedA, SecretNonce1, Ctx1)
PartialB1 == PartialOf(SeedB, SecretNonce2, Ctx1)
PartialB2 == PartialOf(SeedB, SecretNonce2, Ctx2)   \* B signed another blockhash
PartialC1 == PartialOf(SeedC, SecretNonce2, Ctx1)   \* C is not in the group
PartialShortSig == [PartialB1 EXCEPT !.partialSignature = Slice(@, SIGNATURE_LENGTH - 1)]
PartialShortNonce == [PartialB1 EXCEPT !.publicNonce = Slice(@, NONCE_LENGTH - 1)]

Partials == {PartialA1, PartialB1, PartialB2, PartialC1, PartialShortSig, PartialShortNonce}
PartialLists == SeqsUpTo(Partials, MaxPartials)

Wallet2of2 == aggregateKeys(<<KeyA, KeyB>>, Num(2)).value
Wallet1of2 == aggregateKeys(<<KeyA, KeyB>>, Num(1)).value
Wallet1of1 == aggregateKeys(<<KeyA>>, UndefinedNum).value
\* the wallet of the test `should handle insufficient signatures`
WalletTest == Wallet(KeyA, <<KeyA>>, Num(2))

Wallets == {Wallet2of2, Wallet1of2, Wallet1of1, WalletTest}

IdleAgg ==
    [pc |-> "idle", partialSignatures |-> <<>>, transactionDetails |-> <<>>,
     aggregateWallet |-> <<>>, tx |-> <<>>, completeSignature |-> <<>>,
     txId |-> "", result |-> Err("")]

ThresholdNotMet_offByOne(partialSignatures, aggregateWallet) ==
    LessThan(Len(partialSignatures) + 1, aggregateWallet.threshold)

ThresholdNotMet_atThreshold(partialSignatures, aggregateWallet) ==
    LessThan(Len(partialSignatures) - 1, aggregateWallet.threshold)

\* partialSignatures.length < aggregateWallet.threshold
ThresholdNotMet(partialSignatures, aggregateWallet) ==
    LessThan(Len(partialSignatures), aggregateWallet.threshold)

\* the call up to its first await: the threshold check, then
\* createTransactionFromDetails asks the connection for the latest blockhash
AggregateSignaturesAndBroadcast(partialSignatures, transactionDetails, aggregateWallet) ==
    /\ agg.pc = "idle"
    /\ LET call == [IdleAgg EXCEPT !.partialSignatures = partialSignatures,
                                   !.transactionDetails = transactionDetails,
                                   !.aggregateWallet = aggregateWallet]
       IN IF ThresholdNotMet(partialSignatures, aggregateWallet)
          THEN /\ agg' = [call EXCEPT
                     !.pc = "done",
                     !.result = InsufficientSignatures(Len(partialSignatures),
                                                       aggregateWallet.threshold.num)]
               /\ UNCHANGED ledger
          ELSE /\ agg' = [call EXCEPT !.pc = "awaitBlockhash"]
               /\ ledger' = Append(ledger, LedgerCall("getLatestBlockhash", <<"aggregate">>, <<>>))
    /\ UNCHANGED <<connection, keysCall, stepTwo, signerVars, walletVars, single, mpcVars, fetched>>

AggBlockhashFailed ==
    /\ agg.pc = "awaitBlockhash"
    /\ agg' = [agg EXCEPT !.pc = "done", !.result = Err("getLatestBlockhash failed")]
    /\ UNCHANGED <<connection, ledger, keysCall, stepTwo, signerVars, walletVars, single, cli,
                   mpcVars, fetched>>

\* the blockhash fetch answers: build the transaction, combine the partial
\* signatures, attach the combined signature and hand the transaction to
\* connection.sendTransaction
AggBlockhashFetched(blockhash) ==
    /\ agg.pc = "awaitBlockhash"
    /\ LET tx == createTransactionFromDetails(agg.transactionDetails, blockhash)
           completeSignature == aggregatePartialSignatures(agg.partialSignatures,
                                                           agg.aggregateWallet)
           signed == addSignature(tx, agg.aggregateWallet.aggregatedPublicKey,
                                  completeSignature.signature)
       IN IF ~signed.ok
          THEN /\ agg' = [agg EXCEPT !.pc = "done", !.tx = <<tx>>,
                                     !.completeSignature = <<completeSignature>>,
                                     !.result = Err(signed.error)]
               /\ UNCHANGED ledger
          ELSE /\ agg' = [agg EXCEPT !.pc = "awaitSend", !.tx = <<signed.value>>,
                                     !.completeSignature = <<completeSignature>>]
               /\ ledger' = Append(ledger, LedgerCall("sendTransaction", <<"aggregate">>,
                                                      <<signed.value>>))
    /\ UNCHANGED <<connection, keysCall, stepTwo, signerVars, walletVars, single, cli, mpcVars>>

AggSendFailed_retry ==
    /\ agg.pc = "awaitSend"
    /\ Len(ledger) < 4
    /\ ledger' = Append(ledger, LedgerCall("sendTransaction", <<"aggregate">>, agg.tx))
    /\ UNCHANGED <<connection, agg, keysCall, stepTwo, signerVars, walletVars, single, cli,
                   mpcVars, fetched>>

AggSendFailed ==
    /\ agg.pc = "awaitSend"
    /\ agg' = [agg EXCEPT !.pc = "done", !.result = Err("sendTransaction failed")]
    /\ UNCHANGED <<connection, ledger, keysCall, stepTwo, signerVars, walletVars, single, cli,
                   mpcVars, fetched>>

AggSent_noConfirm(txId) ==
    /\ agg.pc = "awaitSend"
    /\ agg' = [agg EXCEPT !.pc = "awaitConfirm", !.txId = txId]
    /\ UNCHANGED <<connection, ledger, keysCall, stepTwo, signerVars, walletVars, single, cli,
                   mpcVars, fetched>>

\* sendTransaction answers txId: ask the connection to confirm it
AggSent(txId) ==
    /\ agg.pc = "awaitSend"
    /\ agg' = [agg EXCEPT !.pc = "awaitConfirm", !.txId = txId]
    /\ ledger' = Append(ledger, LedgerCall("confirmTransaction", <<"aggregate">>, <<>>))
    /\ UNCHANGED <<connection, keysCall, stepTwo, signerVars, walletVars, single, cli, mpcVars, fetched>>

AggConfirmFailed ==
    /\ agg.pc = "awaitConfirm"
    /\ agg' = [agg EXCEPT !.pc = "done", !.result = Err("confirmTransaction failed")]
    /\ UNCHANGED <<connection, ledger, keysCall, stepTwo, signerVars, walletVars, single, cli,
                   mpcVars, fetched>>

\* confirmTransaction answers (its value is not looked at): return txId
AggConfirmed ==
    /\ agg.pc = "awaitConfirm"
    /\ agg' = [agg EXCEPT !.pc = "done", !.result = Ok(agg.txId)]
    /\ UNCHANGED <<connection, ledger, keysCall, stepTwo, signerVars, walletVars, single, cli,
                   mpcVars, fetched>>

NextAggregate ==
    \/ \E partialSignatures \in PartialLists, transactionDetails \in {Ctx1, Ctx2, CtxA},
          aggregateWallet \in Wallets :
            /\ AggregateSignaturesAndBroadcast(partialSignatures, transactionDetails,
                                               aggregateWallet)
            /\ UNCHANGED cli
    \/ AggBlockhashFailed
    \/ \E blockhash \in LedgerBlockhashes : AggBlockhashFetched(blockhash) /\ UNCHANGED fetched
    \/ AggSendFailed
    \/ \E txId \in TxIds : AggSent(txId)
    \/ AggConfirmFailed
    \/ AggConfirmed

\* wallets of A and B as a caller can hand them in: with the threshold missing
\* (a parsed JSON without the field), 0, negative, 1 and 2
LooseWallets ==
    {Wallet(KeyAB, <<KeyA, KeyB>>, threshold) :
        threshold \in {UndefinedNum, Num(-1), Num(0), Num(1), Num(2)}}

\* aggregateSignaturesAndBroadcast called with any list of partial signatures,
\* the empty one included, and any of these wallets
NextLoose ==
    \/ \E partialSignatures \in PartialLists, aggregateWallet \in LooseWallets :
          /\ AggregateSignaturesAndBroadcast(partialSignatures, Ctx1, aggregateWallet)
          /\ UNCHANGED cli
    \/ AggBlockhashFailed
    \/ \E blockhash \in LedgerBlockhashes : AggBlockhashFetched(blockhash) /\ UNCHANGED fetched
    \/ AggSendFailed
    \/ \E txId \in TxIds : AggSent(txId)
    \/ AggConfirmFailed
    \/ AggConfirmed

----------------------------------------------------------------------------
(* createMPCSigner (src/src/mpc/ed25519.ts) and TSSWallet.generateKeypair   *)

\* the ways createMPCSigner can end: with the WASM module's key pair, with a
\* tweetnacl key pair after the WASM import failed, or rejecting when the
\* fallback itself throws (nacl.sign.keyPair without a random source)
SignerPaths == {"wasm", "tweetnacl", "rejected"}

\* the seeds the key generators draw
Seeds == {SeedA, SeedB}

\* the signer: its public key and the secret key its sign closure holds
createMPCSigner(path, seed) ==
    IF path = "rejected" THEN Err("no PRNG")
    ELSE Ok([publicKey |-> PublicKeyFromSeed(seed), secretKey |-> SecretKeyFromSeed(seed)])

\* generateKeypair once createMPCSigner has settled as  mpcSigner ; seed is
\* what Keypair.generate() draws in the catch branch
generateKeypair(mpcSigner, seed) ==
    IF mpcSigner.ok
    THEN [publicKey |-> mpcSigner.value.publicKey, secretKey |-> Fill(32, 0)]
    ELSE [publicKey |-> PublicKeyFromSeed(seed), secretKey |-> SecretKeyFromSeed(seed)]

IdleKeypair == [pc |-> "idle", path |-> "", publicKey |-> <<>>, secretKey |-> <<>>]

GenerateKeypair(path, signerSeed, seed) ==
    /\ keypair.pc = "idle"
    /\ LET generated == generateKeypair(createMPCSigner(path, signerSeed), seed)
       IN keypair' = [pc |-> "done", path |-> path, publicKey |-> generated.publicKey,
                      secretKey |-> generated.secretKey]
    /\ UNCHANGED <<connection, ledger, keysCall, stepTwo, agg, random, stepOne, signAll,
                   walletVars, single, mpcVars, fetched>>

----------------------------------------------------------------------------
(* TSSSigningService.aggregateSignStepOne: two independent runs *)

\* aggregateSignStepOne once nacl.randomBytes(32) has answered  secretNonce :
\* derivePublicKey throws for a key that is neither a seed nor a full key
aggregateSignStepOne(participantSecretKey, transactionDetails, secretNonce) ==
    IF derivePublicKey(participantSecretKey).ok
    THEN Ok(StepOneData(participantSecretKey, secretNonce))
    ELSE derivePublicKey(participantSecretKey)

IdleStepOne ==
    [pc |-> "idle", participantSecretKey |-> <<>>, transactionDetails |-> <<>>,
     draw |-> 0, result |-> Err("")]

\* the method has no await: it runs from the draw of the nonce to its return
StepOne(r, participantSecretKey, transactionDetails, secretNonce) ==
    /\ stepOne[r].pc = "idle"
    /\ random' = Append(random, secretNonce)
    /\ stepOne' = [stepOne EXCEPT ![r] =
          [pc |-> "done",
           participantSecretKey |-> participantSecretKey,
           transactionDetails |-> transactionDetails,
           draw |-> Len(random) + 1,
           result |-> aggregateSignStepOne(participantSecretKey, transactionDetails,
                                           secretNonce)]]
    /\ UNCHANGED <<connection, ledger, keysCall, stepTwo, agg, keypair, signAll,
                   walletVars, single, mpcVars, fetched>>

\* the secret keys handed to step one: seeds, a full 64-byte key, a key of 31
\* bytes, and the secret key generateKeypair returned
StepOneKeys ==
    {SeedA, SeedB, SecretKeyFromSeed(SeedA), Fill(SEED_LENGTH - 1, 1)}
        \cup (IF keypair.pc = "done" THEN {keypair.secretKey} ELSE {})

NextStepOne ==
    \/ \E path \in SignerPaths, signerSeed \in Seeds, seed \in Seeds :
          /\ path = "rejected" \/ seed = signerSeed
          /\ GenerateKeypair(path, signerSeed, seed)
          /\ UNCHANGED cli
    \/ \E r \in Runs, participantSecretKey \in StepOneKeys,
          transactionDetails \in {Ctx1, CtxA}, secretNonce \in SecretNonces :
          /\ StepOne(r, participantSecretKey, transactionDetails, secretNonce)
          /\ UNCHANGED cli

----------------------------------------------------------------------------
(* TSSWallet: network selection, balance, blockhash and airdrop.  A         *)
(* Connection is identified by the network whose endpoint it was built for. *)

LAMPORTS_PER_SOL == 1000000000

MaxAirdrops == 2    \* most invocations of requestAirdrop in one behaviour

AirdropNotAvailable == "Airdrop not available on mainnet"

\* clusterApiUrl(network)
clusterApiUrl(net) == "https://api." \o net \o ".solana.com"

\* new Connection(clusterApiUrl(network), 'confirmed')
NewConnection(net) == [endpoint |-> clusterApiUrl(net), commitment |-> "confirmed"]

switchNetwork_keepConnection(net) == [network |-> net, connection |-> walletConnection]

\* the fields of the wallet after switchNetwork(net)
switchNetwork(net) == [network |-> net, connection |-> NewConnection(net)]

getCurrentNetwork == network
getConnection == walletConnection

\* a call on the wallet's connection
WalletCall(op, caller) ==
    [op |-> op, connection |-> walletConnection, caller |-> caller, tx |-> <<>>]

\* TSSWallet.switchNetwork
SwitchNetwork(net) ==
    /\ requestedNetwork' = net
    /\ network' = switchNetwork(net).network
    /\ walletConnection' = switchNetwork(net).connection
    /\ UNCHANGED <<connection, ledger, keysCall, stepTwo, agg, signerVars, airdrop, query,
                   single, cli, mpcVars, fetched>>

CliSwitchNetwork_keepService(net) ==
    /\ requestedNetwork' = net
    /\ network' = switchNetwork(net).network
    /\ walletConnection' = switchNetwork(net).connection
    /\ UNCHANGED <<connection, ledger, keysCall, stepTwo, agg, signerVars, airdrop, query,
                   single, cli, mpcVars, fetched>>

\* TSSCli.switchNetwork: the wallet switches and a new signing service is
\* built on the wallet's new connection
CliSwitchNetwork(net) ==
    /\ requestedNetwork' = net
    /\ network' = switchNetwork(net).network
    /\ walletConnection' = switchNetwork(net).connection
    /\ connection' = switchNetwork(net).connection
    /\ UNCHANGED <<ledger, keysCall, stepTwo, agg, signerVars, airdrop, query, single, cli,
                   mpcVars, fetched>>

IdleQuery == [pc |-> "idle", op |-> "", network |-> "", result |-> Err("")]

\* getBalance up to its await
GetBalance(publicKey) ==
    /\ query.pc = "idle"
    /\ query' = [IdleQuery EXCEPT !.pc = "awaitBalance", !.op = "getBalance",
                                  !.network = network]
    /\ ledger' = Append(ledger, WalletCall("getBalance", <<"query">>))
    /\ UNCHANGED <<connection, keysCall, stepTwo, agg, signerVars, requestedNetwork, network,
                   walletConnection, airdrop, single, mpcVars, fetched>>

\* connection.getBalance answers: return balance / LAMPORTS_PER_SOL, kept as
\* the pair of numerator and denominator
BalanceAnswered(balance) ==
    /\ query.pc = "awaitBalance"
    /\ query' = [query EXCEPT !.pc = "done", !.result = Ok(<<balance, LAMPORTS_PER_SOL>>)]
    /\ UNCHANGED <<connection, ledger, keysCall, stepTwo, agg, signerVars, requestedNetwork,
                   network, walletConnection, airdrop, single, cli, mpcVars, fetched>>

\* getRecentBlockhash up to its await
GetRecentBlockhash ==
    /\ query.pc = "idle"
    /\ query' = [IdleQuery EXCEPT !.pc = "awaitBlockhash", !.op = "getRecentBlockhash",
                                  !.network = network]
    /\ ledger' = Append(ledger, WalletCall("getLatestBlockhash", <<"query">>))
    /\ UNCHANGED <<connection, keysCall, stepTwo, agg, signerVars, requestedNetwork, network,
                   walletConnection, airdrop, single, mpcVars, fetched>>

BlockhashAnswered(blockhash) ==
    /\ query.pc = "awaitBlockhash"
    /\ query' = [query EXCEPT !.pc = "done", !.result = Ok(blockhash)]
    /\ UNCHANGED <<connection, ledger, keysCall, stepTwo, agg, signerVars, requestedNetwork,
                   network, walletConnection, airdrop, single, cli, mpcVars, fetched>>

\* the connection's call fails: the query rejects
QueryFailed ==
    /\ query.pc \in {"awaitBalance", "awaitBlockhash"}
    /\ query' = [query EXCEPT !.pc = "done", !.result = Err("connection failed")]
    /\ UNCHANGED <<connection, ledger, keysCall, stepTwo, agg, signerVars, requestedNetwork,
                   network, walletConnection, airdrop, single, cli, mpcVars, fetched>>

AirdropCall(pc, net, result) ==
    [pc |-> pc, network |-> net, signature |-> "", result |-> result]

AirdropUnavailable_devnet(net) == net = "devnet"

\* this.network === 'mainnet-beta'
AirdropUnavailable(net) == net = "mainnet-beta"

\* requestAirdrop up to its first await: the mainnet check, then the faucet
\* request on the wallet's connection
RequestAirdrop(publicKey, amount) ==
    /\ Len(airdrop) < MaxAirdrops
    /\ IF AirdropUnavailable(network)
       THEN /\ airdrop' = Append(airdrop, AirdropCall("done", network, Err(AirdropNotAvailable)))
            /\ UNCHANGED ledger
       ELSE /\ airdrop' = Append(airdrop, AirdropCall("awaitRequest", network, Err("")))
            /\ ledger' = Append(ledger, WalletCall("requestAirdrop",
                                                   <<"airdrop", Len(airdrop) + 1>>))
    /\ UNCHANGED <<connection, keysCall, stepTwo, agg, signerVars, requestedNetwork, network,
                   walletConnection, query, single, mpcVars, fetched>>

AirdropRequestFailed(i) ==
    /\ airdrop[i].pc = "awaitRequest"
    /\ airdrop' = [airdrop EXCEPT ![i].pc = "done", ![i].result = Err("requestAirdrop failed")]
    /\ UNCHANGED <<connection, ledger, keysCall, stepTwo, agg, signerVars, requestedNetwork,
                   network, walletConnection, query, single, cli, mpcVars, fetched>>

\* the faucet answers signature: ask this.connection, as it is now, to confirm
AirdropRequested(i, signature) ==
    /\ airdrop[i].pc = "awaitRequest"
    /\ airdrop' = [airdrop EXCEPT ![i].pc = "awaitConfirm", ![i].signature = signature]
    /\ ledger' = Append(ledger, WalletCall("confirmTransaction", <<"airdrop", i>>))
    /\ UNCHANGED <<connection, keysCall, stepTwo, agg, signerVars, requestedNetwork, network,
                   walletConnection, query, single, cli, mpcVars, fetched>>

AirdropConfirmFailed(i) ==
    /\ airdrop[i].pc = "awaitConfirm"
    /\ airdrop' = [airdrop EXCEPT ![i].pc = "done",
                                  ![i].result = Err("confirmTransaction failed")]
    /\ UNCHANGED <<connection, ledger, keysCall, stepTwo, agg, signerVars, requestedNetwork,
                   network, walletConnection, query, single, cli, mpcVars, fetched>>

AirdropConfirmed(i) ==
    /\ airdrop[i].pc = "awaitConfirm"
    /\ airdrop' = [airdrop EXCEPT ![i].pc = "done", ![i].result = Ok(airdrop[i].signature)]
    /\ UNCHANGED <<connection, ledger, keysCall, stepTwo, agg, signerVars, requestedNetwork,
                   network, walletConnection, query, single, cli, mpcVars, fetched>>

Balances == {0, 1500000000}
AirdropSignatures == {"airdrop-sig-1"}

\* network selection and the queries of a wallet and of a CLI
NextNetwork ==
    \/ \E net \in Networks : SwitchNetwork(net)
    \/ \E net \in Networks : CliSwitchNetwork(net)
    \/ GetBalance(KeyA) /\ UNCHANGED cli
    \/ \E balance \in Balances : BalanceAnswered(balance)
    \/ GetRecentBlockhash /\ UNCHANGED cli
    \/ \E blockhash \in LedgerBlockhashes : BlockhashAnswered(blockhash)
    \/ QueryFailed

\* network selection and airdrops of a wallet
NextWallet ==
    \/ \E net \in Networks : SwitchNetwork(net)
    \/ RequestAirdrop(KeyA, 1) /\ UNCHANGED cli
    \/ \E i \in 1..Len(airdrop) : AirdropRequestFailed(i)
    \/ \E i \in 1..Len(airdrop), signature \in AirdropSignatures : AirdropRequested(i, signature)
    \/ \E i \in 1..Len(airdrop) : AirdropConfirmFailed(i)
    \/ \E i \in 1..Len(airdrop) : AirdropConfirmed(i)

----------------------------------------------------------------------------
(* MPCKeypair (src/src/mpc/MPCKeypair.ts) *)

MaxTxs == 2    \* longest list handed to signAllTransactions

\* new MPCKeypair(mpcSigner)
MPCKeypair(mpcSigner) ==
    [publicKey |-> mpcSigner.publicKey, secretKey |-> Fill(32, 0), mpcSigner |-> mpcSigner]

\* mpcSigner.sign(message)
sign(mpcSigner, message) == signDetached(message, mpcSigner.secretKey)

SignTasks_sharedMessage(kp, txs) ==
    [i \in 1..Len(txs) |->
        [pc |-> "awaitSign", tx |-> txs[i],
         sig |-> sign(kp.mpcSigner, serializeMessage(txs[1]))]]

\* txs.map(tx => this.signTransaction(tx)): each signTransaction runs to its
\* await, its own msg and the promise of its own sig in hand
SignTasks(kp, txs) ==
    [i \in 1..Len(txs) |->
        [pc |-> "awaitSign", tx |-> txs[i],
         sig |-> sign(kp.mpcSigner, serializeMessage(txs[i]))]]

IdleSignAll == [pc |-> "idle", keypair |-> <<>>, txs |-> <<>>, tasks |-> <<>>, result |-> Err("")]

\* signAllTransactions up to the await of Promise.all; Promise.all of no
\* promise resolves with the empty list
SignAllTransactions(mpcSigner, txs) ==
    /\ signAll.pc = "idle"
    /\ signAll' = [pc |-> IF Len(txs) = 0 THEN "done" ELSE "pending",
                   keypair |-> <<MPCKeypair(mpcSigner)>>,
                   txs |-> txs,
                   tasks |-> SignTasks(MPCKeypair(mpcSigner), txs),
                   result |-> IF Len(txs) = 0 THEN Ok(<<>>) ELSE Err("")]
    /\ UNCHANGED <<connection, ledger, keysCall, stepTwo, agg, random, keypair, stepOne,
                   walletVars, single, cli, mpcVars, fetched>>

\* the sign promise of transaction i resolves: its signTransaction attaches sig
\* to its tx; Promise.all rejects with the first error and resolves with the
\* transactions, in the order of the input, once every one has returned
SignResolved(i) ==
    /\ signAll.pc \in {"pending", "done"}
    /\ i \in 1..Len(signAll.tasks)
    /\ signAll.tasks[i].pc = "awaitSign"
    /\ LET kp == signAll.keypair[1]
           signed == addSignature(signAll.tasks[i].tx, kp.publicKey, signAll.tasks[i].sig)
           tasks == [signAll.tasks EXCEPT
                        ![i].pc = IF signed.ok THEN "returned" ELSE "threw",
                        ![i].tx = IF signed.ok THEN signed.value ELSE @]
           settled == signAll.pc = "done"
       IN signAll' = [signAll EXCEPT
             !.tasks = tasks,
             !.pc = IF settled \/ ~signed.ok
                       \/ \A j \in 1..Len(tasks) : tasks[j].pc = "returned"
                    THEN "done" ELSE "pending",
             !.result = IF settled THEN @
                        ELSE IF ~signed.ok THEN Err(signed.error)
                        ELSE IF \A j \in 1..Len(tasks) : tasks[j].pc = "returned"
                        THEN Ok([j \in 1..Len(tasks) |-> tasks[j].tx])
                        ELSE @]
    /\ UNCHANGED <<connection, ledger, keysCall, stepTwo, agg, random, keypair, stepOne,
                   walletVars, single, cli, mpcVars, fetched>>

\* unsigned transfers: two paid by A, one paid by B
TxA1 == createTransferTx("bh-1", KeyA, KeyC, 1000000)
TxA2 == createTransferTx("bh-1", KeyA, KeyC, 2000000)
TxB1 == createTransferTx("bh-1", KeyB, KeyC, 1000000)

TxLists == SeqsUpTo({TxA1, TxA2, TxB1}, MaxTxs)

NextKeypair ==
    \/ \E path \in {"wasm", "tweetnacl"}, seed \in Seeds, txs \in TxLists :
          SignAllTransactions(createMPCSigner(path, seed).value, txs)
    \/ \E i \in 1..Len(signAll.tasks) : SignResolved(i)

----------------------------------------------------------------------------
(* createMPCSigner step by step, and the MPCKeypair built on its signer     *)

MaxSignCalls == 2    \* most sign / signTransaction calls made on one MPCKeypair

\* how loading the WASM module ends: imported and initialised, import
\* rejected (module not found), or its init function rejected
WasmOutcomes == {"loaded", "missing", "initFailed"}

SignerPath_noFallback(wasm, prng) == IF wasm = "loaded" THEN "wasm" ELSE "rejected"

\* the branch createMPCSigner ends in: the try block with the WASM key pair,
\* the catch block with nacl.sign.keyPair(), which throws only when tweetnacl
\* finds no random source
SignerPath(wasm, prng) ==
    IF wasm = "loaded" THEN "wasm"
    ELSE IF prng THEN "tweetnacl"
    ELSE "rejected"

IdleSigner == [pc |-> "idle", wasm |-> "", prng |-> TRUE, result |-> Err("")]

\* createMPCSigner up to its first await: import('../../pkg/ed25519_tss_wasm')
CreateMPCSigner ==
    /\ signer.pc = "idle"
    /\ signer' = [signer EXCEPT !.pc = "awaitImport"]
    /\ UNCHANGED <<connection, ledger, keysCall, stepTwo, agg, signerVars, walletVars, single,
                   cli, mpcKeypair, verify, fetched, signerFromKey>>

\* the import rejects: the catch block runs to the return
WasmImportFailed(prng, seed) ==
    /\ signer.pc = "awaitImport"
    /\ signer' = [pc |-> "done", wasm |-> "missing", prng |-> prng,
                  result |-> createMPCSigner(SignerPath("missing", prng), seed)]
    /\ UNCHANGED <<connection, ledger, keysCall, stepTwo, agg, signerVars, walletVars, single,
                   cli, mpcKeypair, verify, fetched, signerFromKey>>

\* the import resolves: await wasmModule.default()
WasmImported ==
    /\ signer.pc = "awaitImport"
    /\ signer' = [signer EXCEPT !.pc = "awaitInit"]
    /\ UNCHANGED <<connection, ledger, keysCall, stepTwo, agg, signerVars, walletVars, single,
                   cli, mpcKeypair, verify, fetched, signerFromKey>>

\* the init function rejects: the catch block runs to the return
WasmInitFailed(prng, seed) ==
    /\ signer.pc = "awaitInit"
    /\ signer' = [pc |-> "done", wasm |-> "initFailed", prng |-> prng,
                  result |-> createMPCSigner(SignerPath("initFailed", prng), seed)]
    /\ UNCHANGED <<connection, ledger, keysCall, stepTwo, agg, signerVars, walletVars, single,
                   cli, mpcKeypair, verify, fetched, signerFromKey>>

\* the init function resolves: the try block runs to the return
WasmInitialised(seed) ==
    /\ signer.pc = "awaitInit"
    /\ signer' = [pc |-> "done", wasm |-> "loaded", prng |-> TRUE,
                  result |-> createMPCSigner(SignerPath("loaded", TRUE), seed)]
    /\ UNCHANGED <<connection, ledger, keysCall, stepTwo, agg, signerVars, walletVars, single,
                   cli, mpcKeypair, verify, fetched, signerFromKey>>

\* the signer createMPCSignerFromSecretKey returns: with the WASM module the
\* dummy key '11111111111111111111111111111111' (32 zero bytes) and a sign
\* closure over secretKeyBytes; in the catch block the key pair
\* nacl.sign.keyPair.fromSecretKey makes of the bytes, whose public key is
\* their second half, or its `bad secret key size` for bytes that are not 64
createMPCSignerFromSecretKey(wasm, secretKeyBytes) ==
    IF wasm = "loaded"
    THEN Ok([publicKey |-> Fill(PUBLIC_KEY_LENGTH, 0), secretKey |-> secretKeyBytes])
    ELSE IF Len(secretKeyBytes) # SECRET_KEY_LENGTH THEN Err("bad secret key size")
    ELSE Ok([publicKey |-> [i \in 1..PUBLIC_KEY_LENGTH |-> secretKeyBytes[SEED_LENGTH + i]],
             secretKey |-> secretKeyBytes])

IdleSignerFromKey == [pc |-> "idle", wasm |-> "", secretKeyBytes |-> <<>>, result |-> Err("")]

\* createMPCSignerFromSecretKey up to its first await, the import of the module
CreateMPCSignerFromSecretKey(secretKeyBytes) ==
    /\ signerFromKey.pc = "idle"
    /\ signerFromKey' = [signerFromKey EXCEPT !.pc = "awaitImport",
                                              !.secretKeyBytes = secretKeyBytes]
    /\ UNCHANGED <<connection, ledger, keysCall, stepTwo, agg, signerVars, walletVars, single,
                   cli, signer, mpcKeypair, verify, fetched>>

\* the import rejects: the catch block runs to the return
FromKeyImportFailed ==
    /\ signerFromKey.pc = "awaitImport"
    /\ signerFromKey' = [signerFromKey EXCEPT
          !.pc = "done", !.wasm = "missing",
          !.result = createMPCSignerFromSecretKey("missing", signerFromKey.secretKeyBytes)]
    /\ UNCHANGED <<connection, ledger, keysCall, stepTwo, agg, signerVars, walletVars, single,
                   cli, signer, mpcKeypair, verify, fetched>>

\* the import resolves: await wasmModule.default()
FromKeyImported ==
    /\ signerFromKey.pc = "awaitImport"
    /\ signerFromKey' = [signerFromKey EXCEPT !.pc = "awaitInit"]
    /\ UNCHANGED <<connection, ledger, keysCall, stepTwo, agg, signerVars, walletVars, single,
                   cli, signer, mpcKeypair, verify, fetched>>

\* the init function rejects: the catch block runs to the return
FromKeyInitFailed ==
    /\ signerFromKey.pc = "awaitInit"
    /\ signerFromKey' = [signerFromKey EXCEPT
          !.pc = "done", !.wasm = "initFailed",
          !.result = createMPCSignerFromSecretKey("initFailed", signerFromKey.secretKeyBytes)]
    /\ UNCHANGED <<connection, ledger, keysCall, stepTwo, agg, signerVars, walletVars, single,
                   cli, signer, mpcKeypair, verify, fetched>>

\* the init function resolves: the try block runs to the return
FromKeyInitialised ==
    /\ signerFromKey.pc = "awaitInit"
    /\ signerFromKey' = [signerFromKey EXCEPT
          !.pc = "done", !.wasm = "loaded",
          !.result = createMPCSignerFromSecretKey("loaded", signerFromKey.secretKeyBytes)]
    /\ UNCHANGED <<connection, ledger, keysCall, stepTwo, agg, signerVars, walletVars, single,
                   cli, signer, mpcKeypair, verify, fetched>>

\* the bytes handed to createMPCSignerFromSecretKey: the secret keys of A and
\* B and the seed of A
SignerKeyBytes == {SecretKeyFromSeed(SeedA), SecretKeyFromSeed(SeedB), SeedA}

\* both constructors of a signer, step by step
NextSignerKeys ==
    \/ CreateMPCSigner
    \/ \E prng \in BOOLEAN, seed \in Seeds : WasmImportFailed(prng, seed)
    \/ WasmImported
    \/ \E prng \in BOOLEAN, seed \in Seeds : WasmInitFailed(prng, seed)
    \/ \E seed \in Seeds : WasmInitialised(seed)
    \/ \E secretKeyBytes \in SignerKeyBytes : CreateMPCSignerFromSecretKey(secretKeyBytes)
    \/ FromKeyImportFailed
    \/ FromKeyImported
    \/ FromKeyInitFailed
    \/ FromKeyInitialised

NoMPCKeypair == [object |-> <<>>, calls |-> <<>>]

\* new MPCKeypair(signer) with the signer createMPCSigner resolved with
NewMPCKeypair ==
    /\ signer.pc = "done"
    /\ signer.result.ok
    /\ mpcKeypair.object = <<>>
    /\ mpcKeypair' = [mpcKeypair EXCEPT !.object = <<MPCKeypair(signer.result.value)>>]
    /\ UNCHANGED <<connection, ledger, keysCall, stepTwo, agg, signerVars, walletVars, single,
                   cli, signer, verify, fetched, signerFromKey>>

MPCKeypairSign_ownSecret(kp, message) ==
    signDetached(message, SecretKeyFromSeed(kp.secretKey))

\* MPCKeypair.sign(message): return this.mpcSigner.sign(message)
MPCKeypairSign(kp, message) == sign(kp.mpcSigner, message)

SignCall(op, message, tx, pc, sig, result) ==
    [op |-> op, message |-> message, tx |-> tx, pc |-> pc, sig |-> sig, result |-> result]

\* keypair.sign(message): no field of the object is written
KeypairSign(message) ==
    /\ mpcKeypair.object # <<>>
    /\ Len(mpcKeypair.calls) < MaxSignCalls
    /\ LET sig == MPCKeypairSign(mpcKeypair.object[1], message)
       IN mpcKeypair' = [mpcKeypair EXCEPT
             !.calls = Append(@, SignCall("sign", message, <<>>, "done", sig, Ok(sig)))]
    /\ UNCHANGED <<connection, ledger, keysCall, stepTwo, agg, signerVars, walletVars, single,
                   cli, signer, verify, fetched, signerFromKey>>

\* keypair.signTransaction(tx) up to its await of this.sign(msg)
KeypairSignTransaction(tx) ==
    /\ mpcKeypair.object # <<>>
    /\ Len(mpcKeypair.calls) < MaxSignCalls
    /\ LET msg == serializeMessage(tx)
           sig == MPCKeypairSign(mpcKeypair.object[1], msg)
       IN mpcKeypair' = [mpcKeypair EXCEPT
             !.calls = Append(@, SignCall("signTransaction", msg, <<tx>>, "awaitSign", sig,
                                          Err("")))]
    /\ UNCHANGED <<connection, ledger, keysCall, stepTwo, agg, signerVars, walletVars, single,
                   cli, signer, verify, fetched, signerFromKey>>

\* the sign promise resolves: attach sig under this.publicKey and return tx
KeypairTransactionSigned(i) ==
    /\ i \in 1..Len(mpcKeypair.calls)
    /\ mpcKeypair.calls[i].pc = "awaitSign"
    /\ LET call == mpcKeypair.calls[i]
           signed == addSignature(call.tx[1], mpcKeypair.object[1].publicKey, call.sig)
       IN mpcKeypair' = [mpcKeypair EXCEPT
             !.calls[i].pc = "done",
             !.calls[i].tx = IF signed.ok THEN <<signed.value>> ELSE @,
             !.calls[i].result = IF signed.ok THEN Ok(signed.value) ELSE Err(signed.error)]
    /\ UNCHANGED <<connection, ledger, keysCall, stepTwo, agg, signerVars, walletVars, single,
                   cli, signer, verify, fetched, signerFromKey>>

\* the messages handed to sign
SignMessages == {serializeMessage(TxA1), serializeMessage(TxB1)}

NextSigner ==
    \/ CreateMPCSigner
    \/ \E prng \in BOOLEAN, seed \in Seeds : WasmImportFailed(prng, seed)
    \/ WasmImported
    \/ \E prng \in BOOLEAN, seed \in Seeds : WasmInitFailed(prng, seed)
    \/ \E seed \in Seeds : WasmInitialised(seed)
    \/ NewMPCKeypair
    \/ \E message \in SignMessages : KeypairSign(message)
    \/ \E tx \in {TxA1, TxA2, TxB1} : KeypairSignTransaction(tx)
    \/ \E i \in 1..Len(mpcKeypair.calls) : KeypairTransactionSigned(i)

----------------------------------------------------------------------------
(* TSSSigningService.verifyPartialSignature.  A PartialSignature is kept as *)
(* its signature bytes and its signer, <<key bytes>> or <<>> for a signer   *)
(* that is undefined; a message is <<message>> or <<>> for a value that is  *)
(* no Uint8Array.                                                           *)

\* the seeds of the key pairs of the model
KeySeeds == {SeedA, SeedB, SeedC}

\* nacl.sign.detached.verify(msg, sig, publicKey): throws for an argument that
\* is no Uint8Array, a signature that has not 64 bytes or a key that has not
\* 32 bytes; else tells whether sig is the signature of msg under publicKey
detachedVerify(msg, sig, publicKey) ==
    IF msg = <<>> THEN Err("unexpected type, use Uint8Array")
    ELSE IF Len(sig) # SIGNATURE_LENGTH THEN Err("bad signature size")
    ELSE IF Len(publicKey) # PUBLIC_KEY_LENGTH THEN Err("bad public key size")
    ELSE Ok(\E seed \in KeySeeds :
               /\ PublicKeyFromSeed(seed) = publicKey
               /\ signDetached(msg[1], SecretKeyFromSeed(seed)) = sig)

\* the body of the try block; signature.signer.toBytes() throws a TypeError
\* for an undefined signer
VerifyAttempt(signature, message) ==
    IF signature.signer = <<>> THEN Err("TypeError")
    ELSE detachedVerify(message, signature.signature, signature.signer[1])

verifyPartialSignature_noCatch(signature, message) == VerifyAttempt(signature, message)

\* try { return nacl.sign.detached.verify(...) } catch (error) { return false }
verifyPartialSignature(signature, message) ==
    IF VerifyAttempt(signature, message).ok THEN VerifyAttempt(signature, message)
    ELSE Ok(FALSE)

IdleVerify == [pc |-> "idle", signature |-> <<>>, message |-> <<>>, result |-> Err("")]

\* the method is synchronous: it runs to its return
VerifyPartialSignature(signature, message) ==
    /\ verify.pc = "idle"
    /\ verify' = [pc |-> "done", signature |-> <<signature>>, message |-> message,
                  result |-> verifyPartialSignature(signature, message)]
    /\ UNCHANGED <<connection, ledger, keysCall, stepTwo, agg, signerVars, walletVars, single,
                   cli, signer, mpcKeypair, fetched, signerFromKey>>

\* signatures: A's signature of the first transfer, 64 zero bytes (the dummy
\* of the test), 63 bytes, no bytes
VerifySignatures ==
    {signDetached(serializeMessage(TxA1), SecretKeyFromSeed(SeedA)),
     Fill(SIGNATURE_LENGTH, 0), Fill(SIGNATURE_LENGTH - 1, 0), <<>>}

\* signers: A, B, the all-zero key '11111111111111111111111111111111', a key
\* object whose bytes are 31 long, an undefined signer
VerifySigners ==
    {<<KeyA>>, <<KeyB>>, <<Fill(PUBLIC_KEY_LENGTH, 0)>>, <<Fill(PUBLIC_KEY_LENGTH - 1, 1)>>, <<>>}

VerifyMessages == {<<serializeMessage(TxA1)>>, <<serializeMessage(TxA2)>>, <<>>}

NextVerify ==
    \E sig \in VerifySignatures, by \in VerifySigners, message \in VerifyMessages :
        VerifyPartialSignature([signature |-> sig, signer |-> by], message)

----------------------------------------------------------------------------
(* TSSSigningService.sendSingle *)

IdleSingle ==
    [pc |-> "idle", fromSecretKey |-> <<>>, to |-> <<>>, amount |-> 0, memo |-> UndefinedMemo,
     mpcSigner |-> <<>>, tx |-> <<>>, txId |-> "", result |-> Err("")]

\* the call up to its first ledger call: createMPCSigner settles, then
\* createTransferTx asks the connection for the latest blockhash
SendSingle(fromSecretKey, to, amount, memo, path, seed) ==
    /\ single.pc = "idle"
    /\ LET mpcSigner == createMPCSigner(path, seed)
           call == [IdleSingle EXCEPT !.fromSecretKey = fromSecretKey, !.to = to,
                                      !.amount = amount, !.memo = memo]
       IN IF ~mpcSigner.ok
          THEN /\ single' = [call EXCEPT !.pc = "done", !.result = mpcSigner]
               /\ UNCHANGED ledger
          ELSE /\ single' = [call EXCEPT !.pc = "awaitBlockhash",
                                         !.mpcSigner = <<mpcSigner.value>>]
               /\ ledger' = Append(ledger, LedgerCall("getLatestBlockhash", <<"single">>, <<>>))
    /\ UNCHANGED <<connection, keysCall, stepTwo, agg, signerVars, walletVars, mpcVars, fetched>>

SingleBlockhashFailed ==
    /\ single.pc = "awaitBlockhash"
    /\ single' = [single EXCEPT !.pc = "done", !.result = Err("getLatestBlockhash failed")]
    /\ UNCHANGED <<connection, ledger, keysCall, stepTwo, agg, signerVars, walletVars, cli,
                   mpcVars, fetched>>

\* the blockhash fetch answers: add the memo, sign with the signer, attach the
\* signature and hand the transaction to connection.sendTransaction
SingleBlockhashFetched(blockhash) ==
    /\ single.pc = "awaitBlockhash"
    /\ LET mpcSigner == single.mpcSigner[1]
           transfer == createTransferTx(blockhash, mpcSigner.publicKey, single.to,
                                        single.amount)
           tx == IF MemoTruthy(single.memo)
                 THEN [transfer EXCEPT !.instructions = Append(@, MemoInstruction(single.memo))]
                 ELSE transfer
           signed == addSignature(tx, mpcSigner.publicKey,
                                  sign(mpcSigner, serializeMessage(tx)))
       IN IF ~signed.ok
          THEN /\ single' = [single EXCEPT !.pc = "done", !.tx = <<tx>>,
                                           !.result = Err(signed.error)]
               /\ UNCHANGED ledger
          ELSE /\ single' = [single EXCEPT !.pc = "awaitSend", !.tx = <<signed.value>>]
               /\ ledger' = Append(ledger, LedgerCall("sendTransaction", <<"single">>,
                                                      <<signed.value>>))
    /\ UNCHANGED <<connection, keysCall, stepTwo, agg, signerVars, walletVars, cli, mpcVars, fetched>>

SingleSendFailed ==
    /\ single.pc = "awaitSend"
    /\ single' = [single EXCEPT !.pc = "done", !.result = Err("sendTransaction failed")]
    /\ UNCHANGED <<connection, ledger, keysCall, stepTwo, agg, signerVars, walletVars, cli,
                   mpcVars, fetched>>

SingleSent(txId) ==
    /\ single.pc = "awaitSend"
    /\ single' = [single EXCEPT !.pc = "awaitConfirm", !.txId = txId]
    /\ ledger' = Append(ledger, LedgerCall("confirmTransaction", <<"single">>, <<>>))
    /\ UNCHANGED <<connection, keysCall, stepTwo, agg, signerVars, walletVars, cli, mpcVars, fetched>>

SingleConfirmFailed ==
    /\ single.pc = "awaitConfirm"
    /\ single' = [single EXCEPT !.pc = "done", !.result = Err("confirmTransaction failed")]
    /\ UNCHANGED <<connection, ledger, keysCall, stepTwo, agg, signerVars, walletVars, cli,
                   mpcVars, fetched>>

SingleConfirmed ==
    /\ single.pc = "awaitConfirm"
    /\ single' = [single EXCEPT !.pc = "done", !.result = Ok(single.txId)]
    /\ UNCHANGED <<connection, ledger, keysCall, stepTwo, agg, signerVars, walletVars, cli,
                   mpcVars, fetched>>

\* the secret keys handed to sendSingle: A's seed and B's full secret key
SingleSecretKeys == {SeedA, SecretKeyFromSeed(SeedB)}

NextSingle ==
    \/ \E fromSecretKey \in SingleSecretKeys, memo \in {UndefinedMemo, "memo-1"},
          path \in SignerPaths, seed \in Seeds :
          SendSingle(fromSecretKey, KeyC, 1000000, memo, path, seed) /\ UNCHANGED cli
    \/ SingleBlockhashFailed
    \/ \E blockhash \in LedgerBlockhashes : SingleBlockhashFetched(blockhash)
    \/ SingleSendFailed
    \/ \E txId \in TxIds : SingleSent(txId)
    \/ SingleConfirmFailed
    \/ SingleConfirmed

----------------------------------------------------------------------------
(* TSSCli (src/unnamed/part_000, lines 84-376): strings in, strings out.    *)
(* A base58 string is kept as the bytes it decodes to, with a flag telling  *)
(* whether all its characters are base58 digits; a hex string is the        *)
(* sequence of its digits' values; a JSON document is the record it parses  *)
(* to.                                                                      *)

InvalidPublicKeyFormat == "Invalid public key format"

\* key.toString()
KeyString(key) == [base58 |-> TRUE, bytes |-> key]

\* 'invalid' (l is no base58 digit) and a base58 string of 31 bytes
NotBase58 == [base58 |-> FALSE, bytes |-> <<>>]
ShortKeyString == [base58 |-> TRUE, bytes |-> Fill(PUBLIC_KEY_LENGTH - 1, 1)]

validatePublicKey_zeroKey(keyString) ==
    IF keyString.base58 /\ Len(keyString.bytes) = PUBLIC_KEY_LENGTH
    THEN Ok(keyString.bytes)
    ELSE Ok(Fill(PUBLIC_KEY_LENGTH, 0))

\* TSSWallet.validatePublicKey: new PublicKey(keyString) throws unless the
\* string is base58 and decodes to 32 bytes
validatePublicKey(keyString) ==
    IF keyString.base58 /\ Len(keyString.bytes) = PUBLIC_KEY_LENGTH
    THEN Ok(keyString.bytes)
    ELSE Err(InvalidPublicKeyFormat)

\* Buffer.from(bytes).toString('hex')
HexEncode(bytes) ==
    [i \in 1..(2 * Len(bytes)) |->
        IF i % 2 = 1 THEN bytes[(i + 1) \div 2] \div 16 ELSE bytes[i \div 2] % 16]

\* new Uint8Array(Buffer.from(hex, 'hex')): one byte per pair of digits
HexDecode(hex) == [i \in 1..(Len(hex) \div 2) |-> 16 * hex[2 * i - 1] + hex[2 * i]]

\* the index of the first key string, in the order the operation validates
\* them, that validatePublicKey throws for; 0 when there is none
FirstInvalid(keyStrings) ==
    IF \A i \in 1..Len(keyStrings) : validatePublicKey(keyStrings[i]).ok THEN 0
    ELSE CHOOSE i \in 1..Len(keyStrings) :
            /\ ~validatePublicKey(keyStrings[i]).ok
            /\ \A j \in 1..(i - 1) : validatePublicKey(keyStrings[j]).ok

allButCli ==
    <<connection, ledger, keysCall, stepTwo, agg, signerVars, walletVars, single, mpcVars, fetched>>

IdleCli ==
    [op |-> "", pc |-> "idle", keyStrings |-> <<>>, invalidKey |-> <<>>, args |-> <<>>,
     result |-> Err("")]

\* validatePublicKey threw `Invalid public key format: ${keyString}` : the
\* operation rejects, nothing else has happened
CliReject(op, keyStrings) ==
    /\ cli' = [IdleCli EXCEPT !.op = op, !.pc = "failed", !.keyStrings = keyStrings,
                              !.invalidKey = <<keyStrings[FirstInvalid(keyStrings)]>>,
                              !.result = Err(InvalidPublicKeyFormat)]
    /\ UNCHANGED allButCli

\* the key strings are valid: the operation goes on
CliAccept(op, keyStrings, pc, args) ==
    cli' = [IdleCli EXCEPT !.op = op, !.pc = pc, !.keyStrings = keyStrings, !.args = args]

\* cli.generate
CliGenerate(path, signerSeed, seed) ==
    /\ cli.pc = "idle"
    /\ CliAccept("generate", <<>>, "delegated", <<>>)
    /\ GenerateKeypair(path, signerSeed, seed)

\* cli.balance
CliBalance(address) ==
    /\ cli.pc = "idle"
    /\ IF FirstInvalid(<<address>>) # 0 THEN CliReject("balance", <<address>>)
       ELSE /\ CliAccept("balance", <<address>>, "delegated", <<>>)
            /\ GetBalance(validatePublicKey(address).value)

\* cli.airdrop
CliAirdrop(address, amount) ==
    /\ cli.pc = "idle"
    /\ IF FirstInvalid(<<address>>) # 0 THEN CliReject("airdrop", <<address>>)
       ELSE /\ CliAccept("airdrop", <<address>>, "delegated", <<Len(airdrop) + 1>>)
            /\ RequestAirdrop(validatePublicKey(address).value, amount)

\* cli.sendSingle
CliSendSingle(fromSecretHex, to, amount, memo, path, seed) ==
    /\ cli.pc = "idle"
    /\ IF FirstInvalid(<<to>>) # 0 THEN CliReject("sendSingle", <<to>>)
       ELSE /\ CliAccept("sendSingle", <<to>>, "delegated", <<>>)
            /\ SendSingle(HexDecode(fromSecretHex), validatePublicKey(to).value, amount,
                          memo, path, seed)

\* cli.aggregateKeys
CliAggregateKeys(keyStrings, threshold) ==
    /\ cli.pc = "idle"
    /\ IF FirstInvalid(keyStrings) # 0 THEN CliReject("aggregateKeys", keyStrings)
       ELSE /\ CliAccept("aggregateKeys", keyStrings, "delegated", <<>>)
            /\ AggregateKeys([i \in 1..Len(keyStrings) |->
                                 validatePublicKey(keyStrings[i]).value], threshold)

\* the transactionDetails cli.aggregateSignStepOne/Two build
CliDetails(amount, to, from, memo, blockHash) ==
    [amount |-> amount, to |-> to, from |-> from, network |-> getCurrentNetwork,
     memo |-> memo, recentBlockhash |-> blockHash]

\* cli.aggregateSignStepOne up to its await: with a recentBlockhash the
\* signing service is called at once, without one the wallet is asked for it
CliAggregateSignStepOne(r, participantSecretHex, to, amount, memo, recentBlockhash, secretNonce) ==
    /\ cli.pc = "idle"
    /\ IF FirstInvalid(<<to, to>>) # 0 THEN CliReject("aggregateSignStepOne", <<to, to>>)
       ELSE LET toPublicKey == validatePublicKey(to).value
                fromPublicKey == validatePublicKey(to).value
                call == [run |-> r, participantSecret |-> HexDecode(participantSecretHex),
                         amount |-> amount, to |-> toPublicKey, from |-> fromPublicKey,
                         memo |-> memo]
            IN IF MemoTruthy(recentBlockhash)
               THEN /\ CliAccept("aggregateSignStepOne", <<to, to>>, "delegated", <<call>>)
                    /\ StepOne(r, call.participantSecret,
                               CliDetails(amount, toPublicKey, fromPublicKey, memo,
                                          recentBlockhash),
                               secretNonce)
               ELSE /\ CliAccept("aggregateSignStepOne", <<to, to>>, "awaitRecentBlockhash",
                                 <<call>>)
                    /\ GetRecentBlockhash

\* wallet.getRecentBlockhash has settled: call the signing service, or reject
CliStepOneResume(secretNonce) ==
    /\ cli.op = "aggregateSignStepOne"
    /\ cli.pc = "awaitRecentBlockhash"
    /\ query.pc = "done"
    /\ IF ~query.result.ok
       THEN /\ cli' = [cli EXCEPT !.pc = "failed", !.result = query.result]
            /\ UNCHANGED allButCli
       ELSE /\ cli' = [cli EXCEPT !.pc = "delegated"]
            /\ StepOne(cli.args[1].run, cli.args[1].participantSecret,
                       CliDetails(cli.args[1].amount, cli.args[1].to, cli.args[1].from,
                                  cli.args[1].memo, query.result.value),
                       secretNonce)

\* JSON.stringify of what cli.aggregateSignStepOne returns
StepOneJson(stepOneData) ==
    [secretNonce |-> HexEncode(stepOneData.secretNonce),
     publicNonce |-> HexEncode(stepOneData.publicNonce),
     participantKey |-> KeyString(stepOneData.participantKey)]

\* cli.aggregateSignStepTwo up to its await
CliAggregateSignStepTwo(r, stepOneDataJson, participantSecretHex, to, amount, allPublicNoncesHex, memo, recentBlockhash) ==
    /\ cli.pc = "idle"
    /\ LET keyStrings == <<stepOneDataJson.participantKey, to>>
       IN IF FirstInvalid(keyStrings) # 0 THEN CliReject("aggregateSignStepTwo", keyStrings)
          ELSE LET stepOneData ==
                       [secretNonce |-> HexDecode(stepOneDataJson.secretNonce),
                        publicNonce |-> HexDecode(stepOneDataJson.publicNonce),
                        participantKey |->
                            validatePublicKey(stepOneDataJson.participantKey).value]
                   toPublicKey == validatePublicKey(to).value
                   fromPublicKey == stepOneData.participantKey
                   call == [run |-> r, stepOneData |-> stepOneData,
                            participantSecret |-> HexDecode(participantSecretHex),
                            amount |-> amount, to |-> toPublicKey, from |-> fromPublicKey,
                            memo |-> memo,
                            allPublicNonces |-> [i \in 1..Len(allPublicNoncesHex) |->
                                                    HexDecode(allPublicNoncesHex[i])]]
               IN IF MemoTruthy(recentBlockhash)
                  THEN /\ CliAccept("aggregateSignStepTwo", keyStrings, "delegated", <<call>>)
                       /\ AggregateSignStepTwo(r, stepOneData, call.participantSecret,
                                               CliDetails(amount, toPublicKey, fromPublicKey,
                                                          memo, recentBlockhash),
                                               call.allPublicNonces)
                  ELSE /\ CliAccept("aggregateSignStepTwo", keyStrings,
                                    "awaitRecentBlockhash", <<call>>)
                       /\ GetRecentBlockhash

CliStepTwoResume ==
    /\ cli.op = "aggregateSignStepTwo"
    /\ cli.pc = "awaitRecentBlockhash"
    /\ query.pc = "done"
    /\ IF ~query.result.ok
       THEN /\ cli' = [cli EXCEPT !.pc = "failed", !.result = query.result]
            /\ UNCHANGED allButCli
       ELSE /\ cli' = [cli EXCEPT !.pc = "delegated"]
            /\ AggregateSignStepTwo(cli.args[1].run, cli.args[1].stepOneData,
                                    cli.args[1].participantSecret,
                                    CliDetails(cli.args[1].amount, cli.args[1].to,
                                               cli.args[1].from, cli.args[1].memo,
                                               query.result.value),
                                    cli.args[1].allPublicNonces)

\* JSON.stringify of a step-two output, of transaction details and of a wallet
StepTwoJson(stepTwoData) ==
    [partialSignature |-> HexEncode(stepTwoData.partialSignature),
     publicNonce |-> HexEncode(stepTwoData.publicNonce),
     participantKey |-> KeyString(stepTwoData.participantKey)]

DetailsJson(details) == [details EXCEPT !.to = KeyString(@), !.from = KeyString(@)]

WalletJson(wallet) ==
    [aggregatedPublicKey |-> KeyString(wallet.aggregatedPublicKey),
     participantKeys |-> [i \in 1..Len(wallet.participantKeys) |->
                             KeyString(wallet.participantKeys[i])],
     threshold |-> wallet.threshold]

\* cli.aggregateSignaturesAndBroadcast: the key strings are validated in the
\* order partial signatures, to, from, aggregated key, participant keys
CliAggregateSignaturesAndBroadcast(partialSignaturesJson, transactionDetailsJson, aggregateWalletJson) ==
    /\ cli.pc = "idle"
    /\ LET keyStrings ==
               [i \in 1..Len(partialSignaturesJson) |-> partialSignaturesJson[i].participantKey]
                   \o <<transactionDetailsJson.to, transactionDetailsJson.from,
                        aggregateWalletJson.aggregatedPublicKey>>
                   \o aggregateWalletJson.participantKeys
       IN IF FirstInvalid(keyStrings) # 0
          THEN CliReject("aggregateSignaturesAndBroadcast", keyStrings)
          ELSE /\ CliAccept("aggregateSignaturesAndBroadcast", keyStrings, "delegated", <<>>)
               /\ AggregateSignaturesAndBroadcast(
                     [i \in 1..Len(partialSignaturesJson) |->
                         [partialSignature |->
                              HexDecode(partialSignaturesJson[i].partialSignature),
                          publicNonce |-> HexDecode(partialSignaturesJson[i].publicNonce),
                          participantKey |->
                              validatePublicKey(partialSignaturesJson[i].participantKey).value]],
                     [transactionDetailsJson EXCEPT
                         !.to = validatePublicKey(@).value,
                         !.from = validatePublicKey(@).value],
                     [aggregatedPublicKey |->
                          validatePublicKey(aggregateWalletJson.aggregatedPublicKey).value,
                      participantKeys |->
                          [i \in 1..Len(aggregateWalletJson.participantKeys) |->
                              validatePublicKey(aggregateWalletJson.participantKeys[i]).value],
                      threshold |-> aggregateWalletJson.threshold])

\* inputs of the CLI operations
Addresses == {KeyString(KeyA), NotBase58, ShortKeyString}
Recipients == {KeyString(KeyC), NotBase58}
KeyStringLists ==
    {<<KeyString(KeyA), KeyString(KeyB)>>, <<KeyString(KeyA), NotBase58>>,
     <<ShortKeyString, KeyString(KeyB)>>, <<>>}
OptionalBlockhashes == {UndefinedMemo, "bh-1"}
StepOneJsons ==
    {StepOneJson(StepOneData(SeedA, SecretNonce1)),
     [StepOneJson(StepOneData(SeedA, SecretNonce1)) EXCEPT !.participantKey = NotBase58]}
PartialJsonLists ==
    {<<StepTwoJson(PartialA1), StepTwoJson(PartialB1)>>,
     <<StepTwoJson(PartialA1), [StepTwoJson(PartialB1) EXCEPT !.participantKey = NotBase58]>>}
DetailsJsons ==
    {DetailsJson(Ctx1), [DetailsJson(Ctx1) EXCEPT !.to = NotBase58],
     [DetailsJson(Ctx1) EXCEPT !.from = ShortKeyString]}
WalletJsons ==
    {WalletJson(Wallet2of2), [WalletJson(Wallet2of2) EXCEPT !.aggregatedPublicKey = NotBase58],
     [WalletJson(Wallet2of2) EXCEPT !.participantKeys = <<KeyString(KeyA), NotBase58>>]}

NextCli ==
    \/ \E path \in SignerPaths, seed \in Seeds : CliGenerate(path, seed, seed)
    \/ \E address \in Addresses : CliBalance(address)
    \/ \E address \in Addresses : CliAirdrop(address, 1)
    \/ \E to \in Recipients, memo \in {UndefinedMemo, "memo-1"}, path \in SignerPaths :
          CliSendSingle(HexEncode(SeedA), to, 1000000, memo, path, SeedB)
    \/ \E keyStrings \in KeyStringLists, threshold \in {UndefinedNum, Num(2)} :
          CliAggregateKeys(keyStrings, threshold)
    \/ \E to \in Recipients, recentBlockhash \in OptionalBlockhashes,
          secretNonce \in SecretNonces :
          CliAggregateSignStepOne(1, HexEncode(SeedA), to, 1000000, "memo-1", recentBlockhash,
                                  secretNonce)
    \/ \E secretNonce \in SecretNonces : CliStepOneResume(secretNonce)
    \/ \E stepOneDataJson \in StepOneJsons, to \in Recipients,
          recentBlockhash \in OptionalBlockhashes :
          CliAggregateSignStepTwo(1, stepOneDataJson, HexEncode(SeedA), to, 1000000,
                                  <<HexEncode(PublicNonce1), HexEncode(PublicNonce2)>>,
                                  "memo-1", recentBlockhash)
    \/ CliStepTwoResume
    \/ \E partialSignaturesJson \in PartialJsonLists, transactionDetailsJson \in DetailsJsons,
          aggregateWalletJson \in WalletJsons :
          CliAggregateSignaturesAndBroadcast(partialSignaturesJson, transactionDetailsJson,
                                             aggregateWalletJson)
    \/ \E net \in Networks : CliSwitchNetwork(net)
    \/ \E balance \in Balances : BalanceAnswered(balance)
    \/ \E blockhash \in LedgerBlockhashes : BlockhashAnswered(blockhash)
    \/ QueryFailed
    \/ \E i \in 1..Len(airdrop) : AirdropRequestFailed(i)
    \/ \E i \in 1..Len(airdrop), signature \in AirdropSignatures : AirdropRequested(i, signature)
    \/ \E i \in 1..Len(airdrop) : AirdropConfirmFailed(i)
    \/ \E i \in 1..Len(airdrop) : AirdropConfirmed(i)
    \/ SingleBlockhashFailed
    \/ \E blockhash \in LedgerBlockhashes : SingleBlockhashFetched(blockhash)
    \/ SingleSendFailed
    \/ \E txId \in TxIds : SingleSent(txId)
    \/ SingleConfirmFailed
    \/ SingleConfirmed
    \/ StepTwoBlockhashFailed(1)
    \/ \E blockhash \in LedgerBlockhashes :
          StepTwoBlockhashFetched(1, blockhash) /\ UNCHANGED fetched
    \/ AggBlockhashFailed
    \/ \E blockhash \in LedgerBlockhashes : AggBlockhashFetched(blockhash) /\ UNCHANGED fetched
    \/ AggSendFailed
    \/ \E txId \in TxIds : AggSent(txId)
    \/ AggConfirmFailed
    \/ AggConfirmed

----------------------------------------------------------------------------
(* The state after construction: a signing service on the connection of one *)
(* of the networks, no call in flight                                       *)

Init ==
    /\ network \in Networks
    /\ requestedNetwork = network
    /\ walletConnection = NewConnection(network)
    /\ connection = getConnection
    /\ ledger = <<>>
    /\ keysCall = IdleKeysCall
    /\ stepTwo = [r \in Runs |-> IdleStepTwo]
    /\ agg = IdleAgg
    /\ random = <<>>
    /\ keypair = IdleKeypair
    /\ stepOne = [r \in Runs |-> IdleStepOne]
    /\ signAll = IdleSignAll
    /\ airdrop = <<>>
    /\ query = IdleQuery
    /\ single = IdleSingle
    /\ cli = IdleCli
    /\ signer = IdleSigner
    /\ mpcKeypair = NoMPCKeypair
    /\ verify = IdleVerify
    /\ fetched = [caller \in BlockhashCallers |-> ""]
    /\ signerFromKey = IdleSignerFromKey

----------------------------------------------------------------------------
(* One signing session of the participants A (run 1) and B (run 2): key     *)
(* aggregation, step one and step two by both, then the aggregation of the  *)
(* two partial signatures the runs returned, against the wallet returned    *)

SessionSeed(r) == IF r = 1 THEN SeedA ELSE SeedB

StepOneReturned(r) == stepOne[r].pc = "done" /\ stepOne[r].result.ok
StepTwoReturned(r) == stepTwo[r].pc = "done" /\ stepTwo[r].result.ok

NextSession ==
    \/ \E threshold \in {Num(1), Num(2)} :
          AggregateKeys(<<KeyA, KeyB>>, threshold) /\ UNCHANGED cli
    \/ \E r \in Runs, transactionDetails \in {Ctx1, CtxA}, secretNonce \in SecretNonces :
          StepOne(r, SessionSeed(r), transactionDetails, secretNonce) /\ UNCHANGED cli
    \/ \E r \in Runs, details \in {Ctx1, CtxA} :
          /\ \A q \in Runs : StepOneReturned(q)
          /\ StepTwoCall(r, SessionSeed(r), stepOne[r].result.value.secretNonce, details,
                         <<stepOne[1].result.value.publicNonce,
                           stepOne[2].result.value.publicNonce>>)
          /\ UNCHANGED cli
    \/ \E r \in Runs : StepTwoBlockhashFailed(r)
    \/ \E r \in Runs : StepTwoBlockhashFetched(r, "bh-ledger-1") /\ UNCHANGED fetched
    \/ \E transactionDetails \in {Ctx1, CtxA} :
          /\ keysCall.pc = "done"
          /\ \A q \in Runs : StepTwoReturned(q)
          /\ AggregateSignaturesAndBroadcast(
                <<stepTwo[1].result.value, stepTwo[2].result.value>>,
                transactionDetails, keysCall.result.value)
          /\ UNCHANGED cli
    \/ AggBlockhashFailed
    \/ AggBlockhashFetched("bh-ledger-1") /\ UNCHANGED fetched
    \/ AggSendFailed
    \/ \E txId \in TxIds : AggSent(txId)
    \/ AggConfirmFailed
    \/ AggConfirmed

\* the secret keys a participant may hold: a 32-byte seed, a 64-byte secret
\* key, 64 bytes whose second half is not the public key of the first half, a
\* key of 31 bytes and the empty key
MixedKey == SeedA \o KeyB
RoundKeys == {SeedA, SecretKeyFromSeed(SeedB), MixedKey, Fill(SEED_LENGTH - 1, 1), <<>>}

\* The two rounds of one participant per run, with one secret key: step one,
\* then step two with the step-one data a run returned and the key the caller
\* handed to step one, then the check of the partial signature against the
\* participantKey of the step-one data
NextRounds ==
    \/ \E r \in Runs, participantSecretKey \in RoundKeys, secretNonce \in SecretNonces :
          StepOne(r, participantSecretKey, Ctx1, secretNonce) /\ UNCHANGED cli
    \/ \E r, q \in Runs :
          /\ stepOne[r].pc = "done"
          /\ StepOneReturned(q)
          /\ AggregateSignStepTwo(r, stepOne[q].result.value, stepOne[r].participantSecretKey,
                                  Ctx1, <<stepOne[q].result.value.publicNonce>>)
          /\ UNCHANGED cli
    \/ \E r \in Runs : StepTwoBlockhashFailed(r)
    \/ \E r \in Runs : StepTwoBlockhashFetched(r, "bh-ledger-1") /\ UNCHANGED fetched
    \/ \E r \in Runs :
          /\ StepTwoReturned(r)
          /\ VerifyPartialSignature(
                [signature |-> stepTwo[r].result.value.partialSignature,
                 signer |-> <<stepTwo[r].result.value.participantKey>>],
                stepTwo[r].messageToSign)

\* the service call a CLI operation awaits has settled, or the operation has
\* rejected: the operation is over
CliSettled ==
    \/ cli.pc = "failed"
    \/ /\ cli.pc = "delegated"
       /\ CASE cli.op = "aggregateSignStepOne" -> stepOne[cli.args[1].run].pc = "done"
            [] cli.op = "aggregateSignStepTwo" -> stepTwo[cli.args[1].run].pc = "done"
            [] cli.op = "aggregateSignaturesAndBroadcast" -> agg.pc = "done"
            [] cli.op = "sendSingle" -> single.pc = "done"
            [] OTHER -> TRUE

\* the operation returns (or rejects) to its caller; the CLI takes the next one
CliReturn ==
    /\ CliSettled
    /\ cli' = IdleCli
    /\ UNCHANGED allButCli

\* One TSSCli whose network is switched between its signing operations: a
\* single-key transfer, a step two and an aggregation, each run to its end
NextCliNetwork ==
    \/ \E net \in Networks : cli.pc = "idle" /\ CliSwitchNetwork(net)
    \/ \E path \in SignerPaths :
          CliSendSingle(HexEncode(SeedA), KeyString(KeyC), 1000000, UndefinedMemo, path, SeedB)
    \/ CliAggregateSignStepTwo(1, StepOneJson(StepOneData(SeedA, SecretNonce1)),
                               HexEncode(SeedA), KeyString(KeyC), 1000000,
                               <<HexEncode(PublicNonce1), HexEncode(PublicNonce2)>>,
                               "memo-1", "bh-1")
    \/ CliAggregateSignaturesAndBroadcast(<<StepTwoJson(PartialA1), StepTwoJson(PartialB1)>>,
                                          DetailsJson(Ctx1), WalletJson(Wallet2of2))
    \/ SingleBlockhashFailed
    \/ SingleBlockhashFetched("bh-ledger-1")
    \/ SingleSendFailed
    \/ \E txId \in TxIds : SingleSent(txId)
    \/ SingleConfirmFailed
    \/ SingleConfirmed
    \/ StepTwoBlockhashFailed(1)
    \/ StepTwoBlockhashFetched(1, "bh-ledger-1") /\ UNCHANGED fetched
    \/ AggBlockhashFailed
    \/ AggBlockhashFetched("bh-ledger-1") /\ UNCHANGED fetched
    \/ AggSendFailed
    \/ \E txId \in TxIds : AggSent(txId)
    \/ AggConfirmFailed
    \/ AggConfirmed
    \/ CliReturn

\* One signing session through the CLI: the participants A (run 1) and B
\* (run 2) call cli.aggregateSignStepOne and cli.aggregateSignStepTwo with the
\* same recipient, amount, memo and recent blockhash, then the partial
\* signatures are aggregated with the details one of them signed or with the
\* details of a transfer from the aggregated key
NextCliSession ==
    \/ \E r \in Runs, secretNonce \in SecretNonces :
          CliAggregateSignStepOne(r, HexEncode(SessionSeed(r)), KeyString(KeyC), 1000000,
                                  "memo-1", "bh-1", secretNonce)
    \/ \E r \in Runs :
          /\ \A q \in Runs : StepOneReturned(q)
          /\ CliAggregateSignStepTwo(r, StepOneJson(stepOne[r].result.value),
                                     HexEncode(SessionSeed(r)), KeyString(KeyC), 1000000,
                                     <<HexEncode(stepOne[1].result.value.publicNonce),
                                       HexEncode(stepOne[2].result.value.publicNonce)>>,
                                     "memo-1", "bh-1")
    \/ \E r \in Runs : StepTwoBlockhashFailed(r)
    \/ \E r \in Runs, blockhash \in LedgerBlockhashes :
          StepTwoBlockhashFetched(r, blockhash) /\ UNCHANGED fetched
    \/ \E transactionDetails \in {stepTwo[r].transactionDetails : r \in Runs} \cup {Ctx1} :
          /\ \A q \in Runs : StepTwoReturned(q)
          /\ CliAggregateSignaturesAndBroadcast(
                <<StepTwoJson(stepTwo[1].result.value), StepTwoJson(stepTwo[2].result.value)>>,
                DetailsJson(transactionDetails), WalletJson(Wallet2of2))
    \/ AggBlockhashFailed
    \/ \E blockhash \in LedgerBlockhashes : AggBlockhashFetched(blockhash) /\ UNCHANGED fetched
    \/ AggSendFailed
    \/ \E txId \in TxIds : AggSent(txId)
    \/ AggConfirmFailed
    \/ AggConfirmed
    \/ CliReturn

\* Step two by A and by B and the aggregation of their partial signatures,
\* each over one of two contexts, while the ledger's latest blockhash moves on;
\* fetched  keeps what each blockhash fetch was answered with
NextBuild ==
    \/ \E r \in Runs, details \in {Ctx1, Ctx2} :
          /\ StepTwoCall(r, SessionSeed(r), IF r = 1 THEN SecretNonce1 ELSE SecretNonce2,
                         details, <<PublicNonce1, PublicNonce2>>)
          /\ UNCHANGED <<cli, fetched>>
    \/ \E r \in Runs : StepTwoBlockhashFailed(r)
    \/ \E r \in Runs, blockhash \in LedgerBlockhashes :
          /\ StepTwoBlockhashFetched(r, blockhash)
          /\ fetched' = [fetched EXCEPT ![<<"stepTwo", r>>] = blockhash]
    \/ \E details \in {Ctx1, Ctx2} :
          /\ AggregateSignaturesAndBroadcast(<<PartialA1, PartialB1>>, details, Wallet2of2)
          /\ UNCHANGED <<cli, fetched>>
    \/ AggBlockhashFailed
    \/ \E blockhash \in LedgerBlockhashes :
          /\ AggBlockhashFetched(blockhash)
          /\ fetched' = [fetched EXCEPT ![<<"aggregate">>] = blockhash]
    \/ AggSendFailed
    \/ \E txId \in TxIds : AggSent(txId)
    \/ AggConfirmFailed
    \/ AggConfirmed

NextKeys ==
    \E keys \in KeyLists, threshold \in ThresholdArgs :
        AggregateKeys(keys, threshold) /\ UNCHANGED cli

SpecKeys == Init /\ [][NextKeys]_vars
SpecStepOne == Init /\ [][NextStepOne]_vars
SpecStepTwo == Init /\ [][NextStepTwo]_vars
SpecAggregate == Init /\ [][NextAggregate]_vars
SpecNetwork == Init /\ [][NextNetwork]_vars
SpecWallet == Init /\ [][NextWallet]_vars
SpecKeypair == Init /\ [][NextKeypair]_vars
SpecCli == Init /\ [][NextCli]_vars
SpecSession == Init /\ [][NextSession]_vars
SpecSigner == Init /\ [][NextSigner]_vars
SpecCliSession == Init /\ [][NextCliSession]_vars
SpecBuild == Init /\ [][NextBuild]_vars
SpecSingle == Init /\ [][NextSingle]_vars
SpecVerify == Init /\ [][NextVerify]_vars
SpecRounds == Init /\ [][NextRounds]_vars
SpecLoose == Init /\ [][NextLoose]_vars
SpecSignerKeys == Init /\ [][NextSignerKeys]_vars
SpecCliNetwork == Init /\ [][NextCliNetwork]_vars

----------------------------------------------------------------------------
(* Properties of aggregateSignaturesAndBroadcast *)

Started == agg.pc # "idle"

\* a transaction was handed to connection.sendTransaction
Submitted == \E i \in 1..Len(ledger) : ledger[i].op = "sendTransaction"

\* C1: a call with fewer partial signatures than the wallet's threshold ends
\* with the error Insufficient signatures: have/need, where have is the number
\* of partial signatures and need the threshold, and has done nothing else: no
\* transaction was built, no signature combined and no ledger call issued.
C1_InsufficientFailsFirst ==
    (/\ Started
     /\ agg.aggregateWallet.threshold.defined
     /\ Len(agg.partialSignatures) < agg.aggregateWallet.threshold.num)
    => /\ agg.pc = "done"
       /\ agg.result = InsufficientSignatures(Len(agg.partialSignatures),
                                              agg.aggregateWallet.threshold.num)
       /\ Len(agg.tx) = 0
       /\ Len(agg.completeSignature) = 0
       /\ ledger = <<>>

\* one partial signature for a wallet of threshold 2 was rejected with 1/2
C1_Witness ==
    /\ agg.pc = "done"
    /\ Len(agg.partialSignatures) = 1
    /\ agg.aggregateWallet = Wallet2of2
    /\ agg.result = InsufficientSignatures(1, 2)
    /\ ledger = <<>>

\* C2: whenever the call has combined a signature and submitted it, the
\* threshold was met, every partialSignature has exactly 64 bytes and every
\* publicNonce exactly 32 bytes.
C2_OnlyWellFormedCombined ==
    (Started /\ Submitted)
    => /\ Len(agg.partialSignatures) >= agg.aggregateWallet.threshold.num
       /\ \A i \in 1..Len(agg.partialSignatures) :
             /\ Len(agg.partialSignatures[i].partialSignature) = SIGNATURE_LENGTH
             /\ Len(agg.partialSignatures[i].publicNonce) = NONCE_LENGTH

\* the participants of the wallet that contributed a partial signature
Cooperating ==
    {agg.partialSignatures[i].participantKey : i \in 1..Len(agg.partialSignatures)}
        \cap Range(agg.aggregateWallet.participantKeys)

\* C3: whenever a transaction is submitted, at least threshold distinct
\* participants of the wallet have contributed a partial signature; repeated
\* entries of one participant and entries of non-members do not count.
C3_DistinctMembersMeetThreshold ==
    (Started /\ Submitted)
    => Cardinality(Cooperating) >= agg.aggregateWallet.threshold.num

AllSeeds == {SeedA, SeedB, SeedC}

\* partial was produced by step two over details
ProducedOver(partial, details) ==
    \E secretKey \in AllSeeds, secretNonce \in SecretNonces :
        partial.partialSignature = PartialOf(secretKey, secretNonce, details).partialSignature

\* some partial signature was produced over another context than the one
\* handed to the aggregation
ContextDiverges ==
    \E i \in 1..Len(agg.partialSignatures) :
        /\ ~ProducedOver(agg.partialSignatures[i], agg.transactionDetails)
        /\ \E details \in Contexts : ProducedOver(agg.partialSignatures[i], details)

\* C10: when a partial signature handed to the aggregation was produced over
\* another context than the aggregation's, nothing is submitted and the call
\* does not return a transaction id.
C10_ContextDivergenceDetected ==
    (Started /\ ContextDiverges)
    => /\ ~Submitted
       /\ (agg.pc = "done" => ~agg.result.ok)

----------------------------------------------------------------------------
(* Properties of aggregateKeys *)

Returned == keysCall.pc = "done" /\ keysCall.result.ok

\* C4: every wallet aggregateKeys returns has 1 <= threshold <=
\* |participantKeys| and at least one participant key, whatever threshold
\* argument was passed.
C4_ThresholdWithinGroup ==
    Returned
    => LET wallet == keysCall.result.value
       IN /\ wallet.threshold.defined
          /\ 1 <= wallet.threshold.num
          /\ wallet.threshold.num <= Len(wallet.participantKeys)
          /\ Len(wallet.participantKeys) >= 1

\* C5: for N >= 1 keys aggregateKeys returns a wallet whose participantKeys is
\* the input list, whose threshold is T when T in 1..N was passed and N when
\* the threshold was omitted.
C5_ThresholdAndKeysPreserved ==
    (keysCall.pc = "done" /\ Len(keysCall.keys) >= 1)
    => /\ keysCall.result.ok
       /\ keysCall.result.value.participantKeys = keysCall.keys
       /\ (/\ keysCall.threshold.defined
           /\ keysCall.threshold.num \in 1..Len(keysCall.keys))
          => keysCall.result.value.threshold = keysCall.threshold
       /\ ~keysCall.threshold.defined
          => keysCall.result.value.threshold = Num(Len(keysCall.keys))

\* three keys with threshold 2 gave a 2-of-3 wallet over the same three keys
C5_Witness ==
    /\ keysCall.pc = "done"
    /\ keysCall.keys = <<KeyA, KeyB, KeyC>>
    /\ keysCall.threshold = Num(2)
    /\ keysCall.result.ok
    /\ keysCall.result.value.threshold = Num(2)
    /\ keysCall.result.value.participantKeys = <<KeyA, KeyB, KeyC>>

\* C6: aggregateKeys of the empty key list fails with Cannot aggregate empty
\* key list, for every threshold argument, and returns no wallet.
C6_EmptyKeyListFails ==
    (keysCall.pc = "done" /\ Len(keysCall.keys) = 0)
    => /\ ~keysCall.result.ok
       /\ keysCall.result.error = EmptyKeyList

\* the empty list with threshold 1 was rejected
C6_Witness ==
    /\ keysCall.pc = "done"
    /\ Len(keysCall.keys) = 0
    /\ keysCall.threshold = Num(1)
    /\ ~keysCall.result.ok

\* C7: aggregateKeys of exactly one key k returns aggregatedPublicKey = k and
\* threshold 1, whatever threshold argument was passed.
C7_SingleKeyForcesThresholdOne ==
    (keysCall.pc = "done" /\ Len(keysCall.keys) = 1)
    => /\ keysCall.result.ok
       /\ keysCall.result.value.aggregatedPublicKey = keysCall.keys[1]
       /\ keysCall.result.value.threshold = Num(1)

----------------------------------------------------------------------------
(* Properties of aggregateSignStepTwo *)

MalformedNonces(r) ==
    \E i \in 1..Len(stepTwo[r].allPublicNonces) :
        Len(stepTwo[r].allPublicNonces[i]) # NONCE_LENGTH

\* C8: a run of step two whose allPublicNonces has an entry that is not
\* exactly 32 bytes fails and returns no partial signature.
C8_MalformedNonceRejected ==
    \A r \in Runs :
        (stepTwo[r].pc = "done" /\ MalformedNonces(r)) => ~stepTwo[r].result.ok

\* C9: two runs of step two with the same secret key and the same context that
\* differ in allPublicNonces or in the secretNonce return different partial
\* signatures.
C9_SignatureDependsOnNonces ==
    \A r1, r2 \in Runs :
        (/\ stepTwo[r1].pc = "done" /\ stepTwo[r1].result.ok
         /\ stepTwo[r2].pc = "done" /\ stepTwo[r2].result.ok
         /\ stepTwo[r1].participantSecretKey = stepTwo[r2].participantSecretKey
         /\ stepTwo[r1].transactionDetails = stepTwo[r2].transactionDetails
         /\ \/ stepTwo[r1].allPublicNonces # stepTwo[r2].allPublicNonces
            \/ stepTwo[r1].stepOneData.secretNonce # stepTwo[r2].stepOneData.secretNonce)
        => stepTwo[r1].result.value.partialSignature
              # stepTwo[r2].result.value.partialSignature

----------------------------------------------------------------------------
(* Properties of generateKeypair and aggregateSignStepOne *)

\* C11: when step one is run with the secretKey that generateKeypair returned,
\* it returns as participantKey the publicKey that generateKeypair returned,
\* on the signer path and on the fallback path of key generation.
C11_ParticipantKeyIsGeneratedKey ==
    \A r \in Runs :
        (/\ keypair.pc = "done"
         /\ stepOne[r].pc = "done"
         /\ stepOne[r].participantSecretKey = keypair.secretKey)
        => /\ stepOne[r].result.ok
           /\ stepOne[r].result.value.participantKey = keypair.publicKey

\* C13: every run of step one that returns has drawn its own 32 bytes from the
\* random source as secretNonce and returns a 32-byte publicNonce; two runs
\* with equal secretNonces return equal publicNonces, whatever their secret
\* keys and transaction details.
C13_NonceFreshAndKeyIndependent ==
    /\ \A r \in Runs :
          StepOneReturned(r)
          => /\ Len(stepOne[r].result.value.secretNonce) = 32
             /\ Len(stepOne[r].result.value.publicNonce) = 32
             /\ stepOne[r].draw \in 1..Len(random)
             /\ stepOne[r].result.value.secretNonce = random[stepOne[r].draw]
    /\ \A r1, r2 \in Runs :
          (r1 # r2 /\ stepOne[r1].pc = "done" /\ stepOne[r2].pc = "done")
          => stepOne[r1].draw # stepOne[r2].draw
    /\ \A r1, r2 \in Runs :
          (/\ StepOneReturned(r1) /\ StepOneReturned(r2)
           /\ stepOne[r1].result.value.secretNonce = stepOne[r2].result.value.secretNonce)
          => stepOne[r1].result.value.publicNonce = stepOne[r2].result.value.publicNonce

\* two runs with different secret keys and different transaction details drew
\* the same secretNonce and returned the same publicNonce
C13_Witness ==
    /\ StepOneReturned(1) /\ StepOneReturned(2)
    /\ stepOne[1].participantSecretKey = SeedA
    /\ stepOne[2].participantSecretKey = SeedB
    /\ stepOne[1].transactionDetails = Ctx1
    /\ stepOne[2].transactionDetails = CtxA
    /\ random = <<SecretNonce1, SecretNonce1>>
    /\ stepOne[1].result.value.publicNonce = stepOne[2].result.value.publicNonce

----------------------------------------------------------------------------
(* Further properties of aggregateSignStepTwo *)

\* C12: when two runs of step two by the same participant with the same
\* step-one output have both returned a partial signature, they were run over
\* the same transaction details: a secretNonce signs one message only.
C12_NonceSignsOneMessage ==
    \A r1, r2 \in Runs :
        (/\ StepTwoReturned(r1) /\ StepTwoReturned(r2)
         /\ stepTwo[r1].participantSecretKey = stepTwo[r2].participantSecretKey
         /\ stepTwo[r1].stepOneData = stepTwo[r2].stepOneData)
        => stepTwo[r1].transactionDetails = stepTwo[r2].transactionDetails

\* the ledger calls a run of step two has issued
StepTwoLedgerCalls(r) == {i \in 1..Len(ledger) : ledger[i].caller = <<"stepTwo", r>>}

\* C14: a run of step two issues no call to the ledger connection, and so
\* never fails because the blockhash fetch failed.
C14_StepTwoNoNetworkAccess ==
    \A r \in Runs :
        /\ StepTwoLedgerCalls(r) = {}
        /\ stepTwo[r].pc = "done" => stepTwo[r].result.error # "getLatestBlockhash failed"

----------------------------------------------------------------------------
(* Properties of a signing session *)

LedgerFailures ==
    {"getLatestBlockhash failed", "sendTransaction failed", "confirmTransaction failed"}

\* the aggregation of a 2-of-2 session: the wallet has threshold 2, both runs
\* of step two used the same public nonces and the context of the aggregation
CompletedSession ==
    /\ agg.pc = "done"
    /\ agg.aggregateWallet.threshold = Num(2)
    /\ \A r \in Runs :
          /\ stepTwo[r].transactionDetails = agg.transactionDetails
          /\ stepTwo[r].allPublicNonces = stepTwo[1].allPublicNonces

\* C15 as stated: the aggregation of a 2-of-2 session ends without an error
\* and returns a non-empty transaction id, unless a ledger call failed.
C15_SessionAggregates ==
    CompletedSession
    => \/ agg.result.ok /\ agg.result.value # ""
       \/ agg.result.error \in LedgerFailures

\* C15, amended: the aggregation of a 2-of-2 session whose context is sent
\* from the wallet's aggregated key ends without an error and returns a
\* non-empty transaction id, unless a ledger call failed.
C15_SessionFromGroupKeyAggregates ==
    (CompletedSession
     /\ agg.transactionDetails.from = agg.aggregateWallet.aggregatedPublicKey)
    => \/ agg.result.ok /\ agg.result.value # ""
       \/ agg.result.error \in LedgerFailures

\* the 2-of-2 session over Ctx1 returned a transaction id
C15_Witness ==
    /\ CompletedSession
    /\ agg.transactionDetails = Ctx1
    /\ Len(agg.partialSignatures) = 2
    /\ agg.result.ok
    /\ agg.result.value = "txid-1"

----------------------------------------------------------------------------
(* Further properties of aggregateSignaturesAndBroadcast *)

AggLedgerCalls(op) ==
    {i \in 1..Len(ledger) : ledger[i].caller = <<"aggregate">> /\ ledger[i].op = op}

----------------------------------------------------------------------------
(* Properties of the wallet's network selection and airdrop *)

AirdropLedgerCalls(i) == {j \in 1..Len(ledger) : ledger[j].caller = <<"airdrop", i>>}

\* C17: a requestAirdrop called while the wallet's network is mainnet-beta has
\* failed with Airdrop not available on mainnet and has issued no faucet
\* request and no confirmation; one called on devnet or testnet has issued its
\* faucet request, also after the wallet had been on mainnet-beta.
C17_NoAirdropOnMainnet ==
    \A i \in 1..Len(airdrop) :
        IF airdrop[i].network = "mainnet-beta"
        THEN /\ airdrop[i].pc = "done"
             /\ airdrop[i].result = Err(AirdropNotAvailable)
             /\ AirdropLedgerCalls(i) = {}
        ELSE \E j \in AirdropLedgerCalls(i) : ledger[j].op = "requestAirdrop"

\* an airdrop was refused on mainnet-beta and, after the switch to devnet, a
\* second one was issued and confirmed
C17_Witness ==
    /\ Len(airdrop) = 2
    /\ airdrop[1].network = "mainnet-beta"
    /\ airdrop[1].result = Err(AirdropNotAvailable)
    /\ airdrop[2].network = "devnet"
    /\ airdrop[2].pc = "done"
    /\ airdrop[2].result.ok

\* C18: getCurrentNetwork returns the network of the last switchNetwork call,
\* or the constructor's when there was none; the wallet's connection is the
\* one built for that network, and a query is issued on the connection of the
\* network that was current when it was called.
C18_NetworkIsLastRequested ==
    /\ getCurrentNetwork = requestedNetwork
    /\ getConnection = NewConnection(requestedNetwork)
    /\ query.pc # "idle"
       => \E i \in 1..Len(ledger) :
              /\ ledger[i].caller = <<"query">>
              /\ ledger[i].connection = NewConnection(query.network)

\* after a switch from devnet a balance query went to the testnet connection
C18_Witness ==
    /\ getCurrentNetwork = "testnet"
    /\ query.pc = "done"
    /\ query.network = "testnet"
    /\ Len(ledger) = 1
    /\ ledger[1].connection = NewConnection("testnet")
    /\ connection = NewConnection("devnet")

----------------------------------------------------------------------------
(* Properties of the CLI *)

\* the string does not decode to a public key
Undecodable(keyString) == ~(keyString.base58 /\ Len(keyString.bytes) = 32)

\* C19: a CLI operation one of whose key strings does not decode to a public
\* key has failed with Invalid public key format, and nothing else has
\* happened: no ledger call, no wallet, nonce or signature computed.
C19_InvalidKeyStringRejectedFirst ==
    (/\ cli.pc # "idle"
     /\ \E i \in 1..Len(cli.keyStrings) : Undecodable(cli.keyStrings[i]))
    => /\ cli.pc = "failed"
       /\ cli.result = Err(InvalidPublicKeyFormat)
       /\ ledger = <<>>
       /\ random = <<>>
       /\ keysCall = IdleKeysCall
       /\ \A r \in Runs : stepOne[r] = IdleStepOne /\ stepTwo[r] = IdleStepTwo
       /\ agg = IdleAgg
       /\ single = IdleSingle
       /\ query = IdleQuery
       /\ airdrop = <<>>

\* the broadcast operation was rejected for the participant key of a wallet
\* whose other key strings are valid
C19_Witness ==
    /\ cli.op = "aggregateSignaturesAndBroadcast"
    /\ cli.pc = "failed"
    /\ Len(cli.keyStrings) = 7
    /\ cli.keyStrings[7] = NotBase58
    /\ cli.invalidKey = <<NotBase58>>
    /\ \A i \in 1..6 : ~Undecodable(cli.keyStrings[i])

----------------------------------------------------------------------------
(* Properties of MPCKeypair *)

\* C20: the list signAllTransactions returns has the length and the order of
\* its input, and its i-th transaction is the i-th input with one signature
\* added: that of the keypair's publicKey over that transaction's own message.
C20_EachTransactionSignedOverItsOwnMessage ==
    (signAll.pc = "done" /\ signAll.result.ok)
    => /\ Len(signAll.result.value) = Len(signAll.txs)
       /\ \A i \in 1..Len(signAll.txs) :
             signAll.result.value[i] =
                [signAll.txs[i] EXCEPT !.signatures =
                    <<[publicKey |-> signAll.keypair[1].publicKey,
                       signature |-> signDetached(serializeMessage(signAll.txs[i]),
                                                  signAll.keypair[1].mpcSigner.secretKey)]>>]

\* two different transfers came back, each with a signature of its own
C20_Witness ==
    /\ signAll.pc = "done"
    /\ signAll.result.ok
    /\ signAll.txs = <<TxA1, TxA2>>
    /\ signAll.result.value[1].signatures # signAll.result.value[2].signatures

----------------------------------------------------------------------------
(* Properties of MPCKeypair and createMPCSigner *)

\* C21: an MPCKeypair never holds the real secret: its publicKey is the
\* signer's publicKey, its secretKey field is 32 zero bytes (and so not the
\* seed the signer signs with) after construction and after every sign and
\* signTransaction call, and every signature it hands out is the one the
\* underlying signer gives for the same message
C21_KeypairHoldsNoSecret ==
    mpcKeypair.object # <<>> =>
        LET kp == mpcKeypair.object[1]
            mpcSigner == signer.result.value
        IN /\ kp.publicKey = mpcSigner.publicKey
           /\ kp.secretKey = [i \in 1..32 |-> 0]
           /\ kp.secretKey # Slice(mpcSigner.secretKey, SEED_LENGTH)
           /\ \A i \in 1..Len(mpcKeypair.calls) :
                 LET call == mpcKeypair.calls[i]
                 IN /\ call.sig = signDetached(call.message, mpcSigner.secretKey)
                    /\ call.op = "sign" => call.result.ok /\ call.result.value = call.sig

\* a keypair on which sign has returned and signTransaction has returned a
\* signed transaction
C21_Witness ==
    /\ mpcKeypair.object # <<>>
    /\ \E i, j \in 1..Len(mpcKeypair.calls) :
          /\ mpcKeypair.calls[i].op = "sign"
          /\ mpcKeypair.calls[j].op = "signTransaction"
          /\ mpcKeypair.calls[j].pc = "done"
          /\ mpcKeypair.calls[j].result.ok

\* C22: createMPCSigner does not fail because the WASM module is missing or
\* fails to initialise: whenever the import or the init rejected (and
\* tweetnacl has its random source) the call resolves with a signer that has
\* a 32-byte public key and whose sign gives a 64-byte signature
C22_WasmFailureFallsBack ==
    (signer.pc = "done" /\ signer.wasm \in {"missing", "initFailed"} /\ signer.prng) =>
        /\ signer.result.ok
        /\ Len(signer.result.value.publicKey) = PUBLIC_KEY_LENGTH
        /\ \A message \in SignMessages :
              Len(sign(signer.result.value, message)) = SIGNATURE_LENGTH
        /\ \A i \in 1..Len(mpcKeypair.calls) : Len(mpcKeypair.calls[i].sig) = SIGNATURE_LENGTH

\* the init function of the WASM module rejected, and a message was signed
\* with the signer that came back
C22_Witness ==
    /\ signer.pc = "done"
    /\ signer.wasm = "initFailed"
    /\ signer.result.ok
    /\ \E i \in 1..Len(mpcKeypair.calls) :
          mpcKeypair.calls[i].op = "sign" /\ mpcKeypair.calls[i].result.ok

----------------------------------------------------------------------------
(* Properties of verifyPartialSignature *)

\* a signature, key or message of the wrong length or type, or the dummy
\* signature of 64 zero bytes
Malformed(signature, message) ==
    \/ signature.signer = <<>>
    \/ message = <<>>
    \/ Len(signature.signature) # SIGNATURE_LENGTH
    \/ signature.signature = [i \in 1..SIGNATURE_LENGTH |-> 0]
    \/ (signature.signer # <<>> /\ Len(signature.signer[1]) # PUBLIC_KEY_LENGTH)

\* C23: verifyPartialSignature always returns a boolean and never raises;
\* for a malformed signature, key or message it returns false
C23_VerifyReturnsBoolean ==
    verify.pc = "done" =>
        /\ verify.result.ok
        /\ verify.result.value \in BOOLEAN
        /\ Malformed(verify.signature[1], verify.message) => verify.result.value = FALSE

\* a signature of 63 bytes was handed in and false came back
C23_Witness ==
    /\ verify.pc = "done"
    /\ Len(verify.signature[1].signature) = SIGNATURE_LENGTH - 1
    /\ verify.signature[1].signer # <<>>
    /\ verify.message # <<>>
    /\ verify.result.ok
    /\ verify.result.value = FALSE

----------------------------------------------------------------------------
(* Properties of sendSingle *)

\* C24: sendSingle sends with the caller's single private key: the transaction
\* it builds has as fee payer and as sender of the transfer the public key
\* that belongs to fromSecretKey, and the transaction handed to
\* sendTransaction carries the signature of its message under that key
C24_SingleSendsFromCallersKey ==
    single.tx # <<>> =>
        LET tx == single.tx[1]
            from == derivePublicKey(single.fromSecretKey).value
            secretKey == SecretKeyFromSeed(SeedKeyOf(single.fromSecretKey))
        IN /\ tx.feePayer = from
           /\ tx.instructions[1].fromPubkey = from
           /\ single.pc \in {"awaitSend", "awaitConfirm"} =>
                 tx.signatures =
                    <<[publicKey |-> from,
                       signature |-> signDetached(serializeMessage(tx), secretKey)]>>

----------------------------------------------------------------------------
(* Properties of the order of the aggregation steps and of the combination  *)

\* the ledger operations the aggregation call has issued, in order
AggOps ==
    LET calls == SelectSeq(ledger, LAMBDA c : c.caller = <<"aggregate">>)
    IN [i \in 1..Len(calls) |-> calls[i].op]

AggSteps == <<"getLatestBlockhash", "sendTransaction", "confirmTransaction">>

IsPrefix(s, t) == Len(s) <= Len(t) /\ \A i \in 1..Len(s) : s[i] = t[i]

\* C25: once the threshold check has passed, the call builds the transaction
\* (one blockhash fetch), combines, attaches the combined signature under the
\* wallet's aggregated key, sends, confirms and returns the id, in this order
\* and each at most once: the ledger operations are always a prefix of fetch,
\* send, confirm; the transaction sent is the built one with the combined
\* signature attached; the id is returned only after confirm; a failed send or
\* confirm ends the call with that error and no further ledger call.
C25_AggregationStepsInOrder ==
    /\ IsPrefix(AggOps, AggSteps)
    /\ agg.pc = "awaitBlockhash" => Len(AggOps) = 1
    /\ agg.pc = "awaitSend" =>
          /\ Len(AggOps) = 2
          /\ serializeMessage(agg.tx[1]) =
                serializeMessage(createTransactionFromDetails(agg.transactionDetails, "bh-1"))
          /\ agg.tx[1].signatures =
                <<[publicKey |-> agg.aggregateWallet.aggregatedPublicKey,
                   signature |-> agg.completeSignature[1].signature]>>
          /\ \E i \in 1..Len(ledger) : ledger[i].op = "sendTransaction" /\ ledger[i].tx = agg.tx
    /\ agg.pc = "awaitConfirm" => Len(AggOps) = 3
    /\ (agg.pc = "done" /\ agg.result.ok) =>
          AggOps = AggSteps /\ agg.result.value = agg.txId /\ agg.txId # ""
    /\ (agg.pc = "done" /\ ~agg.result.ok /\ agg.result.error = "sendTransaction failed") =>
          Len(AggOps) = 2
    /\ (agg.pc = "done" /\ ~agg.result.ok /\ agg.result.error = "confirmTransaction failed") =>
          Len(AggOps) = 3

\* a call went through fetch, send and confirm and failed at the confirm
C25_Witness ==
    /\ agg.pc = "done"
    /\ ~agg.result.ok
    /\ agg.result.error = "confirmTransaction failed"
    /\ AggOps = AggSteps

\* bit k of the byte n
BitOf(n, k) == (n \div (2 ^ k)) % 2

\* the exclusive or of two bytes, bit by bit
ByteXor(a, b) ==
    LET bit(k) == (BitOf(a, k) + BitOf(b, k)) % 2
    IN bit(0) + 2 * bit(1) + 4 * bit(2) + 8 * bit(3) + 16 * bit(4) + 32 * bit(5)
       + 64 * bit(6) + 128 * bit(7)

\* the exclusive or of position i of the first n buffers; a buffer without a
\* position i adds nothing
RECURSIVE XorAt(_, _, _)
XorAt(bufs, i, n) ==
    IF n = 0 THEN 0
    ELSE ByteXor(XorAt(bufs, i, n - 1), IF i <= Len(bufs[n]) THEN bufs[n][i] ELSE 0)

\* the lists that hold the entries of s in another order
Reorderings(s) == {[i \in 1..Len(s) |-> s[f[i]]] : f \in Permutations(1..Len(s))}

\* the combination has just been made: the call has handed its transaction to
\* sendTransaction, or has ended with the error of addSignature
JustCombined ==
    \/ agg.pc = "awaitSend"
    \/ agg.pc = "done" /\ ~agg.result.ok /\ agg.result.error \in {"unknown signer",
                                                                   "assertion failed"}

\* C26: the combined signature has 64 bytes, each the exclusive or of that
\* position of ALL partial signatures supplied (more than threshold many
\* included); it is the same for every order of the list; it is tagged with
\* the wallet's aggregated key and attached to the transaction under that key.
C26_CombinedIsXorOfAllPartials ==
    /\ JustCombined =>
          LET complete == agg.completeSignature[1]
              sigs == [i \in 1..Len(agg.partialSignatures) |->
                          agg.partialSignatures[i].partialSignature]
          IN /\ Len(complete.signature) = SIGNATURE_LENGTH
             /\ \A i \in 1..SIGNATURE_LENGTH :
                   complete.signature[i] = XorAt(sigs, i, Len(sigs))
             /\ \A other \in Reorderings(agg.partialSignatures) :
                   aggregatePartialSignatures(other, agg.aggregateWallet).signature
                      = complete.signature
             /\ complete.publicKey = agg.aggregateWallet.aggregatedPublicKey
    /\ agg.pc \in {"awaitSend", "awaitConfirm"} =>
          agg.tx[1].signatures =
             <<[publicKey |-> agg.aggregateWallet.aggregatedPublicKey,
                signature |-> agg.completeSignature[1].signature]>>

\* two different partial signatures were combined for a wallet of threshold 1
\* and the transaction was handed to sendTransaction with the combination attached
C26_Witness ==
    /\ agg.pc = "awaitSend"
    /\ Len(agg.partialSignatures) = 2
    /\ agg.aggregateWallet.threshold = Num(1)
    /\ agg.partialSignatures[1].partialSignature # agg.partialSignatures[2].partialSignature
    /\ agg.completeSignature[1].signature # agg.partialSignatures[1].partialSignature

\* C27: for two or more keys the aggregated public key is, byte by byte, the
\* exclusive or of the 32 bytes of all input keys; the same list gives the same
\* key again, every reordering of the list gives the same key, the wallet
\* returned holds the input list as it was handed in, and the call has touched
\* neither the wallet's network, nor its connection, nor the ledger.
C27_AggregatedKeyIsXorOfKeys ==
    (keysCall.pc = "done" /\ Len(keysCall.keys) >= 2) =>
        /\ keysCall.result.ok
        /\ Len(keysCall.result.value.aggregatedPublicKey) = PUBLIC_KEY_LENGTH
        /\ \A i \in 1..PUBLIC_KEY_LENGTH :
              keysCall.result.value.aggregatedPublicKey[i]
                 = XorAt(keysCall.keys, i, Len(keysCall.keys))
        /\ aggregateKeys(keysCall.keys, keysCall.threshold) = keysCall.result
        /\ \A other \in Reorderings(keysCall.keys) :
              aggregateKeys(other, keysCall.threshold).value.aggregatedPublicKey
                 = keysCall.result.value.aggregatedPublicKey
        /\ keysCall.result.value.participantKeys = keysCall.keys
        /\ network = requestedNetwork
        /\ walletConnection = NewConnection(requestedNetwork)
        /\ ledger = <<>>

\* three different keys were aggregated
C27_Witness ==
    /\ keysCall.pc = "done"
    /\ keysCall.result.ok
    /\ Len(keysCall.keys) = 3
    /\ Cardinality(Range(keysCall.keys)) = 3

----------------------------------------------------------------------------
(* Properties of the transaction built from the details *)

\* the message of a transfer of details.amount from details.from to
\* details.to, paid by details.from, with details.recentBlockhash and the memo
MessageOf(details) ==
    [feePayer |-> details.from,
     recentBlockhash |-> details.recentBlockhash,
     instructions |->
        <<[programId |-> "System", fromPubkey |-> details.from, toPubkey |-> details.to,
           lamports |-> details.amount, data |-> ""]>>
        \o (IF details.memo \in {UndefinedMemo, ""} THEN <<>>
            ELSE <<[programId |-> "MemoSq4gqABAXKb96qnH8TysNcWxMyWCqXgDLGmfcHr",
                    fromPubkey |-> <<>>, toPubkey |-> <<>>, lamports |-> 0,
                    data |-> details.memo]>>)]

\* the transactions built so far: by the step-two runs and by the aggregation,
\* each with its details, its message and the blockhash its fetch answered
Builds ==
    {[by |-> <<"stepTwo", r>>, details |-> stepTwo[r].transactionDetails,
      message |-> stepTwo[r].messageToSign[1], blockhash |-> fetched[<<"stepTwo", r>>]] :
        r \in {q \in Runs : stepTwo[q].messageToSign # <<>>}}
    \cup (IF agg.tx = <<>> THEN {}
          ELSE {[by |-> <<"aggregate">>, details |-> agg.transactionDetails,
                 message |-> serializeMessage(agg.tx[1]),
                 blockhash |-> fetched[<<"aggregate">>]]})

\* C28: the message signed in step two and the message of the transaction the
\* aggregation builds are determined by the details alone: each is the message
\* of the details' from, to, amount, memo and recentBlockhash, and two builds
\* from the same details have the same message whatever blockhash the ledger
\* answered to each of them.
C28_MessageDeterminedByDetails ==
    /\ \A b \in Builds : b.message = MessageOf(b.details)
    /\ \A b1, b2 \in Builds : b1.details = b2.details => b1.message = b2.message

\* step two and the aggregation built from the same details after the ledger
\* had answered them different blockhashes
C28_Witness ==
    \E b1, b2 \in Builds :
        /\ b1.by = <<"stepTwo", 1>>
        /\ b2.by = <<"aggregate">>
        /\ b1.details = b2.details
        /\ b1.blockhash # b2.blockhash

----------------------------------------------------------------------------
(* Properties of the output of step two *)

\* what a returned step two hands out
StepTwoOutputIsPublic ==
    \A r \in Runs :
        StepTwoReturned(r) =>
            LET out == stepTwo[r].result.value
                given == stepTwo[r].stepOneData
            IN /\ DOMAIN out = {"partialSignature", "publicNonce", "participantKey"}
               /\ Len(out.partialSignature) = SIGNATURE_LENGTH
               /\ out.publicNonce = given.publicNonce
               /\ out.participantKey = given.participantKey
               /\ \A field \in DOMAIN out :
                     /\ out[field] # given.secretNonce
                     /\ out[field] # stepTwo[r].participantSecretKey
                     /\ out[field] # SecretKeyFromSeed(SeedKeyOf(stepTwo[r].participantSecretKey))

\* a step of a call leaves the step-one data it was given as it is
StepOneDataKept ==
    \A r \in Runs : stepTwo[r].pc # "idle" => stepTwo'[r].stepOneData = stepTwo[r].stepOneData

\* C29: the output of aggregateSignStepTwo has exactly the fields
\* partialSignature (64 bytes), publicNonce and participantKey, the last two
\* being the values of the step-one data handed in; no field holds the
\* secretNonce or the secret key; and the step-one data is never modified.
C29_StepTwoOutput == [](StepTwoOutputIsPublic) /\ [][StepOneDataKept]_vars

\* a step two returned for the session's list of two public nonces
C29_Witness ==
    \E r \in Runs :
        /\ StepTwoReturned(r)
        /\ stepTwo[r].allPublicNonces = <<PublicNonce1, PublicNonce2>>
        /\ Len(stepTwo[r].result.value.partialSignature) = SIGNATURE_LENGTH

----------------------------------------------------------------------------
(* Properties of a signing session through the CLI *)

\* two transaction details agree in recipient, amount, memo and blockhash
SameTransfer(d1, d2) ==
    /\ d1.to = d2.to
    /\ d1.amount = d2.amount
    /\ d1.memo = d2.memo
    /\ d1.recentBlockhash = d2.recentBlockhash

\* C30: in the CLI workflow all participants of a session sign the same
\* context: the details two participants' step-two calls build from the same
\* recipient, amount, memo, blockhash and nonces are identical (from
\* included), they are the details the participant's step-one call built, and
\* they are the details of the aggregation call.
C30_CliSessionSignsOneContext ==
    /\ \A r, q \in Runs :
          (/\ stepTwo[r].pc # "idle" /\ stepTwo[q].pc # "idle"
           /\ SameTransfer(stepTwo[r].transactionDetails, stepTwo[q].transactionDetails)
           /\ stepTwo[r].allPublicNonces = stepTwo[q].allPublicNonces)
          => stepTwo[r].transactionDetails = stepTwo[q].transactionDetails
    /\ \A r \in Runs :
          (/\ stepOne[r].pc = "done" /\ stepTwo[r].pc # "idle"
           /\ SameTransfer(stepOne[r].transactionDetails, stepTwo[r].transactionDetails))
          => stepTwo[r].transactionDetails = stepOne[r].transactionDetails
    /\ \A r \in Runs :
          (/\ agg.pc # "idle" /\ stepTwo[r].pc # "idle"
           /\ SameTransfer(agg.transactionDetails, stepTwo[r].transactionDetails))
          => agg.transactionDetails = stepTwo[r].transactionDetails

----------------------------------------------------------------------------
(* Properties of the two rounds run with one secret key *)

\* run r has returned from step two, called with the data its own step one
\* returned and with the secret key handed to that step one
OwnRounds(r) ==
    /\ StepOneReturned(r)
    /\ StepTwoReturned(r)
    /\ stepTwo[r].stepOneData = stepOne[r].result.value
    /\ stepTwo[r].participantSecretKey = stepOne[r].participantSecretKey

\* C31: step one and step two agree on the signing key: whenever both steps
\* accepted a secret key (of 32 or 64 bytes), the partialSignature step two
\* returned verifies, by verifyPartialSignature over the message step two
\* signed, against the participantKey step one derived from that secret key.
C31_RoundsAgreeOnKey ==
    \A r \in Runs :
        OwnRounds(r) =>
            verifyPartialSignature(
                [signature |-> stepTwo[r].result.value.partialSignature,
                 signer |-> <<stepOne[r].result.value.participantKey>>],
                stepTwo[r].messageToSign).value

\* C32: aggregateSignStepTwo fails for every participantSecretKey whose length
\* is neither 32 nor 64 bytes, the empty key included, as aggregateSignStepOne
\* does; it never signs with a zero-padded or truncated key.
C32_WrongLengthKeyRejected ==
    /\ \A r \in Runs :
          (/\ stepOne[r].pc = "done"
           /\ Len(stepOne[r].participantSecretKey) \notin {SEED_LENGTH, SECRET_KEY_LENGTH})
          => ~stepOne[r].result.ok
    /\ \A r \in Runs :
          (/\ stepTwo[r].pc = "done"
           /\ Len(stepTwo[r].participantSecretKey) \notin {SEED_LENGTH, SECRET_KEY_LENGTH})
          => ~stepTwo[r].result.ok

----------------------------------------------------------------------------
(* Properties of the aggregation of an empty list *)

\* the aggregation has handed a transaction to sendTransaction
AggSubmitted ==
    \E i \in 1..Len(ledger) :
        ledger[i].op = "sendTransaction" /\ ledger[i].caller = <<"aggregate">>

\* C33: aggregateSignaturesAndBroadcast never submits a transaction when it
\* was given an empty list of partial signatures, whatever the threshold of
\* the wallet (0, negative and missing included): no transaction carrying the
\* all-zero combination of no signatures is sent.
C33_EmptyListNeverSubmitted ==
    (agg.pc # "idle" /\ agg.partialSignatures = <<>>) => ~AggSubmitted

----------------------------------------------------------------------------
(* Properties of the wallet's connection *)

\* the positions in the ledger of the calls  op  issued by airdrop i
AirdropCalls(i, op) ==
    {k \in 1..Len(ledger) : ledger[k].op = op /\ ledger[k].caller = <<"airdrop", i>>}

\* C34: an airdrop is requested and confirmed on one and the same connection,
\* whatever switchNetwork calls run while it is pending: the confirmation is
\* issued on the connection of the faucet request, after the request, and the
\* signature is returned only after the confirmation was issued.
C34_AirdropOnOneConnection ==
    \A i \in 1..Len(airdrop) :
        /\ \A c \in AirdropCalls(i, "confirmTransaction") :
              \E q \in AirdropCalls(i, "requestAirdrop") :
                  q < c /\ ledger[q].connection = ledger[c].connection
        /\ (airdrop[i].pc = "done" /\ airdrop[i].result.ok)
              => AirdropCalls(i, "confirmTransaction") # {}

\* the signing service of the CLI is built on the wallet's connection, which
\* is the connection of the network getCurrentNetwork reports
ServiceOnWalletConnection ==
    /\ connection = getConnection
    /\ connection = NewConnection(getCurrentNetwork)

\* a call a signing operation issues goes to the connection of the current
\* network
CallsOnCurrentNetwork ==
    Len(ledger') > Len(ledger) =>
        ledger'[Len(ledger')].connection = NewConnection(getCurrentNetwork)

\* C35: in every state of a TSSCli the connection of its signing service is
\* the wallet's current connection, and after any sequence of
\* cli.switchNetwork calls the signing operations started afterwards issue
\* their calls on the connection of the network getCurrentNetwork reports.
C35_ServiceFollowsWallet == [](ServiceOnWalletConnection) /\ [][CallsOnCurrentNetwork]_vars

\* signing operations have issued calls on two different connections: one ran
\* before a switch of the network and one after it
C35_Witness ==
    \E i, j \in 1..Len(ledger) :
        /\ i < j
        /\ ledger[i].connection # ledger[j].connection
        /\ ledger[j].connection = NewConnection(getCurrentNetwork)
        /\ ledger[j].caller # ledger[i].caller

----------------------------------------------------------------------------
(* Properties of the signers the two constructors return *)

\* the signers returned so far by createMPCSigner and
\* createMPCSignerFromSecretKey
ReturnedSigners ==
    {c.result.value : c \in {c \in {signer, signerFromKey} : c.pc = "done" /\ c.result.ok}}

\* C36: every signer createMPCSigner or createMPCSignerFromSecretKey returns,
\* with the WASM module and with the tweetnacl fallback alike, has the
\* publicKey of the secret key it signs with: sign(m) verifies against
\* signer.publicKey for every message m.
C36_SignerKeyMatchesSecret ==
    \A mpcSigner \in ReturnedSigners, m \in SignMessages :
        detachedVerify(<<m>>, sign(mpcSigner, m), mpcSigner.publicKey).value

----------------------------------------------------------------------------
(* Properties of the participant keys of a wallet *)

\* no key occurs twice in the list
NoKeyTwice(keys) == \A i, j \in 1..Len(keys) : keys[i] = keys[j] => i = j

\* C37: the participantKeys of every wallet aggregateKeys returns contain no
\* key twice: a key list with a repeated key is rejected or deduplicated, so
\* that a repeated key never cancels out of the aggregated key.
C37_ParticipantKeysUnique ==
    (keysCall.pc = "done" /\ keysCall.result.ok) =>
        NoKeyTwice(keysCall.result.value.participantKeys)

====
